---- MODULE Spec2Model ----
(***************************************************************************)
(* urdfix: the URDF document model, the streaming parser, the analyzer /   *)
(* linter and the mutator / regenerator (src/src/utils/{parser,processor,  *)
(* modifier}.rs) as a state machine over one UrdfDocument.                 *)
(*                                                                         *)
(* Strings are sequences of characters; a character is a one-token string  *)
(* ("b", "1", " ", "U+00E9" for a non-ASCII code point).  Option<T> is a    *)
(* sequence of length <= 1.  An IndexMap is the sequence of its            *)
(* [key, value] entries in index order.  Text (raw_xml) is the sequence of *)
(* markup events the quick_xml Reader yields for it / the Writer emits.    *)
(***************************************************************************)
EXTENDS Integers, Sequences, FiniteSets, TLC

VARIABLES doc, last, pc, input, ops

vars == <<doc, last, pc, input, ops>>

(***************************************************************************)
(* Bounds of the model.                                                    *)
(***************************************************************************)
MaxNameLen == 3
MaxLinks == 2
MaxEdges == 1
MaxJoints == 2
MaxMaterials == 2
MaxGraphLinks == 3
MaxGraphJoints == 3
MaxChildren == 2
MaxOps == 1
MaxFixes == 2
MaxElements == 2
MaxJointChildren == 2
MaxRobots == 2
MaxParsedLinks == 3
MaxEdits == 2

(***************************************************************************)
(* Option<T>                                                               *)
(***************************************************************************)
None == <<>>
Some(x) == <<x>>
is_some(o) == o # <<>>
is_none(o) == o = <<>>

\* let v = value; f(v)
With(value, f(_)) == f(value)

(***************************************************************************)
(* Characters (Rust char predicates used by the code)                      *)
(***************************************************************************)
AsciiLower == {"a", "b", "d", "e", "i", "j", "k", "l", "m", "n", "r", "s", "u"}
AsciiUpper == {"B", "J"}
AsciiDigit == {"1"}
\* U+00E9 (e acute) and U+00C9 (E acute) are letters, U+0663 is the
\* Arabic-Indic digit three: alphanumeric, none of them ASCII.
NonAsciiAlpha == {"U+00E9", "U+00C9"}
NonAsciiDigit == {"U+0663"}
Whitespace == {" "}

is_ascii_digit(c) == c \in AsciiDigit
is_alphanumeric(c) ==
    c \in AsciiLower \cup AsciiUpper \cup AsciiDigit \cup NonAsciiAlpha \cup NonAsciiDigit
is_whitespace(c) == c \in Whitespace
to_ascii_lowercase(c) ==
    CASE c = "B" -> "b"
      [] c = "J" -> "j"
      [] OTHER -> c

\* Code point of a character: String's Ord compares UTF-8 bytes, which orders
\* strings as their code points do.
CharCode(c) ==
    CASE c = " " -> 32 [] c = "-" -> 45 [] c = "." -> 46 [] c = "1" -> 49
      [] c = "B" -> 66 [] c = "J" -> 74 [] c = "_" -> 95
      [] c = "a" -> 97 [] c = "b" -> 98 [] c = "d" -> 100 [] c = "e" -> 101
      [] c = "i" -> 105 [] c = "j" -> 106 [] c = "k" -> 107 [] c = "l" -> 108
      [] c = "m" -> 109 [] c = "n" -> 110 [] c = "r" -> 114 [] c = "s" -> 115
      [] c = "u" -> 117
      [] c = "U+00C9" -> 201 [] c = "U+00E9" -> 233 [] c = "U+0663" -> 1635
      [] OTHER -> 0

RECURSIVE StrLess(_, _)
StrLess(s, t) ==
    IF t = <<>> THEN FALSE
    ELSE IF s = <<>> THEN TRUE
    ELSE IF CharCode(Head(s)) # CharCode(Head(t)) THEN CharCode(Head(s)) < CharCode(Head(t))
    ELSE StrLess(Tail(s), Tail(t))

(***************************************************************************)
(* Naming convention (processor.rs and modifier.rs hold the same test)     *)
(***************************************************************************)
is_valid_name(name) ==
    /\ name # <<>>
    /\ \A i \in DOMAIN name : is_alphanumeric(name[i]) \/ name[i] = "_"
    /\ ~ is_ascii_digit(name[1])

modifier_is_valid_name(name) ==
    /\ name # <<>>
    /\ \A i \in DOMAIN name : is_alphanumeric(name[i]) \/ name[i] = "_"
    /\ ~ is_ascii_digit(name[1])

Unnamed == <<"u", "n", "n", "a", "m", "e", "d">>

RECURSIVE fix_name_rest(_)
fix_name_rest(chars) ==
    IF chars = <<>> THEN <<>>
    ELSE LET ch == Head(chars)
             out == IF is_alphanumeric(ch) \/ ch = "_" THEN <<to_ascii_lowercase(ch)>>
                    ELSE IF is_whitespace(ch) \/ ch = "-" THEN <<"_">>
                    ELSE <<>>
         IN  out \o fix_name_rest(Tail(chars))

fix_name_first(first_char) ==
    (IF is_ascii_digit(first_char) THEN <<"_">> ELSE <<>>)
    \o (IF is_alphanumeric(first_char) \/ first_char = "_"
        THEN <<to_ascii_lowercase(first_char)>> ELSE <<>>)

fix_name(name) ==
    LET fixed == IF name = <<>> THEN <<>>
                 ELSE fix_name_first(Head(name)) \o fix_name_rest(Tail(name))
    IN  IF fixed = <<>> THEN Unnamed ELSE fixed

(***************************************************************************)
(* IndexMap<String, V>: entries in index order                             *)
(***************************************************************************)
IMKeys(m) == [i \in DOMAIN m |-> m[i].key]
IMValues(m) == [i \in DOMAIN m |-> m[i].value]
IMIndex(m, k) == IF \E i \in DOMAIN m : m[i].key = k
                 THEN CHOOSE i \in DOMAIN m : m[i].key = k
                 ELSE 0
IMContains(m, k) == \E i \in DOMAIN m : m[i].key = k
IMGet(m, k) == IF IMContains(m, k) THEN Some(m[IMIndex(m, k)].value) ELSE None
\* an insert that appends whether or not the key is present
IMInsert_append(m, k, v) == Append(m, [key |-> k, value |-> v])

\* insert: an existing key keeps its index and gets the new value; a new key
\* is appended.
IMInsert(m, k, v) ==
    IF IMContains(m, k)
    THEN [m EXCEPT ![IMIndex(m, k)] = [key |-> k, value |-> v]]
    ELSE Append(m, [key |-> k, value |-> v])
\* IndexMap::remove is swap_remove: the last entry takes the removed entry's
\* index.
IMRemove(m, k) ==
    LET i == IMIndex(m, k)
        n == Len(m)
    IN  IF i = 0 THEN m
        ELSE IF i = n THEN SubSeq(m, 1, n - 1)
        ELSE [j \in 1..(n - 1) |-> IF j = i THEN m[n] ELSE m[j]]

(***************************************************************************)
(* Document model (parser.rs, the struct definitions)                      *)
(***************************************************************************)
Link(name, inertial, visual, collision) ==
    [name |-> name, inertial |-> inertial, visual |-> visual, collision |-> collision]

Joint(name, joint_type, parent, child, origin, axis, limit, dynamics, mimic) ==
    [name |-> name, joint_type |-> joint_type, parent |-> parent, child |-> child,
     origin |-> origin, axis |-> axis, limit |-> limit, dynamics |-> dynamics,
     mimic |-> mimic]

Material(name, color, texture) == [name |-> name, color |-> color, texture |-> texture]

Visual(name, origin, geometry, material) ==
    [name |-> name, origin |-> origin, geometry |-> geometry, material |-> material]

Collision(name, origin, geometry) == [name |-> name, origin |-> origin, geometry |-> geometry]

MaterialRef(name) == [name |-> name]

Mimic(joint, multiplier, offset) == [joint |-> joint, multiplier |-> multiplier, offset |-> offset]

Robot(name, links, joints, materials, gazebo_elements, transmission_elements) ==
    [name |-> name, links |-> links, joints |-> joints, materials |-> materials,
     gazebo_elements |-> gazebo_elements, transmission_elements |-> transmission_elements]

UrdfDocument(robot, raw_xml) == [robot |-> robot, raw_xml |-> raw_xml]

(***************************************************************************)
(* Markup events: what the Reader yields and the Writer emits              *)
(***************************************************************************)
EvStart(name, attrs) == [type |-> "Start", name |-> name, attrs |-> attrs]
EvEmpty(name, attrs) == [type |-> "Empty", name |-> name, attrs |-> attrs]
EvEnd(name) == [type |-> "End", name |-> name, attrs |-> <<>>]
EvEof == [type |-> "Eof", name |-> "", attrs |-> <<>>]
Attr(key, value) == [key |-> key, value |-> value]

\* BytesStart::push_attribute escapes the value it is given.
RECURSIVE escape(_)
escape(s) ==
    IF s = <<>> THEN <<>>
    ELSE (IF Head(s) = "&" THEN <<"&", "a", "m", "p", ";">> ELSE <<Head(s)>>)
         \o escape(Tail(s))

\* format!("{} {} {}", v[0], v[1], v[2]); a float is written as one token.
format_three(v) == <<v[1], " ", v[2], " ", v[3]>>

(***************************************************************************)
(* Regeneration (modifier.rs)                                              *)
(***************************************************************************)
write_material(material) ==
    LET attrs == <<Attr("name", escape(material.name))>>
    IN  IF is_some(material.color) \/ is_some(material.texture)
        THEN <<EvStart("material", attrs), EvEnd("material")>>
        ELSE <<EvEmpty("material", attrs)>>

write_link(link) ==
    LET attrs == <<Attr("name", escape(link.name))>>
        has_content == is_some(link.inertial) \/ link.visual # <<>> \/ link.collision # <<>>
    IN  IF has_content
        THEN <<EvStart("link", attrs), EvEnd("link")>>
        ELSE <<EvEmpty("link", attrs)>>

write_joint(joint) ==
    <<EvStart("joint", <<Attr("name", escape(joint.name)), Attr("type", joint.joint_type)>>),
      EvEmpty("parent", <<Attr("link", escape(joint.parent))>>),
      EvEmpty("child", <<Attr("link", escape(joint.child))>>)>>
    \o (IF is_some(joint.origin)
        THEN <<EvEmpty("origin", <<Attr("xyz", format_three(joint.origin[1].xyz)),
                                   Attr("rpy", format_three(joint.origin[1].rpy))>>)>>
        ELSE <<>>)
    \o (IF is_some(joint.axis)
        THEN <<EvEmpty("axis", <<Attr("xyz", format_three(joint.axis[1].xyz))>>)>>
        ELSE <<>>)
    \o <<EvEnd("joint")>>

write_gazebo(gazebo) ==
    <<EvEmpty("gazebo", IF is_some(gazebo.reference)
                        THEN <<Attr("reference", escape(gazebo.reference[1]))>>
                        ELSE <<>>)>>

write_transmission(transmission) ==
    <<EvEmpty("transmission", <<Attr("name", escape(transmission.name))>>)>>

RECURSIVE WriteAll(_, _, _)
\* for x in seq { write(x) }: the concatenation of the events written
WriteAll(write(_), seq, i) ==
    IF i > Len(seq) THEN <<>> ELSE write(seq[i]) \o WriteAll(write, seq, i + 1)

\* a regeneration that writes the links before the materials
regenerate_xml_links_first(robot) ==
    <<EvStart("robot", <<Attr("name", escape(robot.name))>>)>>
    \o WriteAll(write_link, IMValues(robot.links), 1)
    \o WriteAll(write_material, IMValues(robot.materials), 1)
    \o WriteAll(write_joint, IMValues(robot.joints), 1)
    \o WriteAll(write_gazebo, robot.gazebo_elements, 1)
    \o WriteAll(write_transmission, robot.transmission_elements, 1)
    \o <<EvEnd("robot")>>

\* The text written for a model; the Writer's indentation is whitespace-only
\* text between the events, which the Reader (trim_text) does not yield.
regenerate_xml_with_formatting(robot) ==
    <<EvStart("robot", <<Attr("name", escape(robot.name))>>)>>
    \o WriteAll(write_material, IMValues(robot.materials), 1)
    \o WriteAll(write_link, IMValues(robot.links), 1)
    \o WriteAll(write_joint, IMValues(robot.joints), 1)
    \o WriteAll(write_gazebo, robot.gazebo_elements, 1)
    \o WriteAll(write_transmission, robot.transmission_elements, 1)
    \o <<EvEnd("robot")>>

regenerate_xml(d) == [d EXCEPT !.raw_xml = regenerate_xml_with_formatting(d.robot)]

(***************************************************************************)
(* Point edits (modifier.rs): each returns [doc, ret]                      *)
(***************************************************************************)
remove_element(d, element_type, name) ==
    CASE element_type = "link" ->
           IF IMContains(d.robot.links, name)
           THEN [doc |-> regenerate_xml([d EXCEPT !.robot.links = IMRemove(@, name)]),
                 ret |-> TRUE]
           ELSE [doc |-> d, ret |-> FALSE]
      [] element_type = "joint" ->
           IF IMContains(d.robot.joints, name)
           THEN [doc |-> regenerate_xml([d EXCEPT !.robot.joints = IMRemove(@, name)]),
                 ret |-> TRUE]
           ELSE [doc |-> d, ret |-> FALSE]
      [] element_type = "material" ->
           IF IMContains(d.robot.materials, name)
           THEN [doc |-> regenerate_xml([d EXCEPT !.robot.materials = IMRemove(@, name)]),
                 ret |-> TRUE]
           ELSE [doc |-> d, ret |-> FALSE]
      [] OTHER -> [doc |-> d, ret |-> FALSE]

\* for joint in joints.values_mut(): rewrite parent and child equal to old_name
\* rename_joint_refs with the child field left alone
rename_joint_refs_parent_only(joints, old_name, new_name) ==
    [i \in DOMAIN joints |->
        [joints[i] EXCEPT !.value.parent = IF @ = old_name THEN new_name ELSE @]]

rename_joint_refs(joints, old_name, new_name) ==
    [i \in DOMAIN joints |->
        [joints[i] EXCEPT
           !.value.parent = IF @ = old_name THEN new_name ELSE @,
           !.value.child = IF @ = old_name THEN new_name ELSE @]]

\* for visual in link.visual of every link: rewrite a material reference
\* equal to old_name
rename_material_refs(links, old_name, new_name) ==
    [i \in DOMAIN links |->
        [links[i] EXCEPT !.value.visual =
            [v \in DOMAIN @ |->
                IF is_some(@[v].material) /\ @[v].material[1].name = old_name
                THEN [@[v] EXCEPT !.material = Some(MaterialRef(new_name))]
                ELSE @[v]]]]

\* rename_link with the name field of the link left as it was
rename_link_key_only(d, old_name, new_name) ==
    IF IMContains(d.robot.links, old_name)
    THEN LET link == IMGet(d.robot.links, old_name)[1]
             removed == IMRemove(d.robot.links, old_name)
             joints == rename_joint_refs(d.robot.joints, old_name, new_name)
         IN  [doc |-> regenerate_xml([d EXCEPT !.robot.links = IMInsert(removed, new_name, link),
                                               !.robot.joints = joints]),
              ret |-> TRUE]
    ELSE [doc |-> d, ret |-> FALSE]

rename_link(d, old_name, new_name) ==
    IF IMContains(d.robot.links, old_name)
    THEN LET link == [IMGet(d.robot.links, old_name)[1] EXCEPT !.name = new_name]
             removed == IMRemove(d.robot.links, old_name)
             joints == rename_joint_refs(d.robot.joints, old_name, new_name)
         IN  [doc |-> regenerate_xml([d EXCEPT !.robot.links = IMInsert(removed, new_name, link),
                                               !.robot.joints = joints]),
              ret |-> TRUE]
    ELSE [doc |-> d, ret |-> FALSE]

rename_joint(d, old_name, new_name) ==
    IF IMContains(d.robot.joints, old_name)
    THEN LET joint == [IMGet(d.robot.joints, old_name)[1] EXCEPT !.name = new_name]
             removed == IMRemove(d.robot.joints, old_name)
         IN  [doc |-> regenerate_xml([d EXCEPT !.robot.joints = IMInsert(removed, new_name, joint)]),
              ret |-> TRUE]
    ELSE [doc |-> d, ret |-> FALSE]

rename_material(d, old_name, new_name) ==
    IF IMContains(d.robot.materials, old_name)
    THEN LET material == [IMGet(d.robot.materials, old_name)[1] EXCEPT !.name = new_name]
             removed == IMRemove(d.robot.materials, old_name)
             links == rename_material_refs(d.robot.links, old_name, new_name)
         IN  [doc |-> regenerate_xml([d EXCEPT !.robot.materials = IMInsert(removed, new_name, material),
                                               !.robot.links = links]),
              ret |-> TRUE]
    ELSE [doc |-> d, ret |-> FALSE]

rename_element(d, element_type, old_name, new_name) ==
    CASE element_type = "link" -> rename_link(d, old_name, new_name)
      [] element_type = "joint" -> rename_joint(d, old_name, new_name)
      [] element_type = "material" -> rename_material(d, old_name, new_name)
      [] OTHER -> [doc |-> d, ret |-> FALSE]

(***************************************************************************)
(* fix transforms (modifier.rs): each returns [robot, changes]; a change   *)
(* entry format!("<what>: {}", name) is the tuple <<what, name>>           *)
(***************************************************************************)
\* find_duplicate_links / _joints / _materials: the keys met a second time
find_duplicate_keys(m) ==
    LET keys == IMKeys(m)
    IN  SelectSeq([i \in DOMAIN keys |-> [k |-> keys[i], dup |-> \E j \in 1..(i - 1) : keys[j] = keys[i]]],
                  LAMBDA e : e.dup)

RECURSIVE RemoveAll(_, _)
RemoveAll(m, names) ==
    IF names = <<>> THEN m ELSE RemoveAll(IMRemove(m, Head(names)), Tail(names))

remove_duplicates(robot) ==
    LET dl == [i \in DOMAIN find_duplicate_keys(robot.links) |-> find_duplicate_keys(robot.links)[i].k]
        dj == [i \in DOMAIN find_duplicate_keys(robot.joints) |-> find_duplicate_keys(robot.joints)[i].k]
        dm == [i \in DOMAIN find_duplicate_keys(robot.materials) |-> find_duplicate_keys(robot.materials)[i].k]
    IN  [robot |-> [robot EXCEPT !.links = RemoveAll(@, dl),
                                 !.joints = RemoveAll(@, dj),
                                 !.materials = RemoveAll(@, dm)],
         changes |-> [i \in DOMAIN dl |-> <<"Removed duplicate link", dl[i]>>]
                     \o [i \in DOMAIN dj |-> <<"Removed duplicate joint", dj[i]>>]
                     \o [i \in DOMAIN dm |-> <<"Removed duplicate material", dm[i]>>]]

\* the names some visual's material reference holds
used_materials(robot) ==
    UNION { { robot.links[i].value.visual[v].material[1].name :
                v \in { w \in DOMAIN robot.links[i].value.visual :
                           is_some(robot.links[i].value.visual[w].material) } } :
            i \in DOMAIN robot.links }

\* remove_unused_materials taking every material as unused
remove_unused_materials_all(robot) ==
    [robot |-> [robot EXCEPT !.materials = <<>>],
     changes |-> [i \in DOMAIN robot.materials |->
                     <<"Removed unused material", robot.materials[i].key>>]]

remove_unused_materials(robot) ==
    LET used == used_materials(robot)
        unused_materials == SelectSeq(IMKeys(robot.materials), LAMBDA name : name \notin used)
    IN  [robot |-> [robot EXCEPT !.materials = RemoveAll(@, unused_materials)],
         changes |-> [i \in DOMAIN unused_materials |->
                         <<"Removed unused material", unused_materials[i]>>]]

RECURSIVE fix_link_names(_, _, _, _)
\* for old_name in bad_link_names { ... }; renames keeps, per rewritten name,
\* the model before and after that rewrite
fix_link_names(robot, bad, changes, renames) ==
    IF bad = <<>> THEN [robot |-> robot, changes |-> changes, renames |-> renames]
    ELSE LET old_name == Head(bad)
             new_name == fix_name(old_name)
         IN  IF new_name # old_name /\ IMContains(robot.links, old_name)
             THEN LET link == [IMGet(robot.links, old_name)[1] EXCEPT !.name = new_name]
                      removed == IMRemove(robot.links, old_name)
                      joints == [i \in DOMAIN robot.joints |->
                                    [robot.joints[i] EXCEPT
                                       !.value.parent = IF @ = old_name THEN new_name ELSE @,
                                       !.value.child = IF @ = old_name THEN new_name ELSE @]]
                      after == [robot EXCEPT !.links = IMInsert(removed, new_name, link),
                                             !.joints = joints]
                  IN  fix_link_names(after, Tail(bad),
                                     Append(changes, <<"Fixed link name", old_name, new_name>>),
                                     Append(renames, [kind |-> "link", old |-> old_name, new |-> new_name,
                                                      before |-> robot, after |-> after]))
             ELSE fix_link_names(robot, Tail(bad), changes, renames)

RECURSIVE fix_joint_names(_, _, _, _)
\* for old_name in bad_joint_names { ... }
fix_joint_names(robot, bad, changes, renames) ==
    IF bad = <<>> THEN [robot |-> robot, changes |-> changes, renames |-> renames]
    ELSE LET old_name == Head(bad)
             new_name == fix_name(old_name)
         IN  IF new_name # old_name /\ IMContains(robot.joints, old_name)
             THEN LET joint == [IMGet(robot.joints, old_name)[1] EXCEPT !.name = new_name]
                      removed == IMRemove(robot.joints, old_name)
                      after == [robot EXCEPT !.joints = IMInsert(removed, new_name, joint)]
                  IN  fix_joint_names(after, Tail(bad),
                                      Append(changes, <<"Fixed joint name", old_name, new_name>>),
                                      Append(renames, [kind |-> "joint", old |-> old_name, new |-> new_name,
                                                       before |-> robot, after |-> after]))
             ELSE fix_joint_names(robot, Tail(bad), changes, renames)

fix_naming_conventions(robot) ==
    LET bad_link_names == SelectSeq(IMKeys(robot.links), LAMBDA name : ~ modifier_is_valid_name(name))
        r1 == fix_link_names(robot, bad_link_names, <<>>, <<>>)
        bad_joint_names == SelectSeq(IMKeys(r1.robot.joints), LAMBDA name : ~ modifier_is_valid_name(name))
    IN  fix_joint_names(r1.robot, bad_joint_names, r1.changes, r1.renames)

add_missing_properties(robot) ==
    LET hit == SelectSeq(robot.links,
                         LAMBDA e : is_none(e.value.inertial)
                                    /\ (e.value.visual # <<>> \/ e.value.collision # <<>>))
    IN  [robot |-> robot,
         changes |-> [i \in DOMAIN hit |->
                         <<"Would add default inertial properties to link", hit[i].key>>]]

RECURSIVE InsertSorted(_, _)
InsertSorted(sorted, name) ==
    IF sorted = <<>> THEN <<name>>
    ELSE IF StrLess(name, Head(sorted)) THEN <<name>> \o sorted
    ELSE <<Head(sorted)>> \o InsertSorted(Tail(sorted), name)

RECURSIVE SortNames(_)
\* Vec<String>::sort()
SortNames(names) ==
    IF names = <<>> THEN <<>>
    ELSE InsertSorted(SortNames(Tail(names)), Head(names))

RECURSIVE MoveSorted(_, _, _)
\* for name in sorted_names: if let Some(v) = map.remove(&name) { sorted.insert(name, v) }
MoveSorted(m, names, sorted) ==
    IF names = <<>> THEN sorted
    ELSE IF IMContains(m, Head(names))
         THEN MoveSorted(IMRemove(m, Head(names)), Tail(names),
                         IMInsert(sorted, Head(names), IMGet(m, Head(names))[1]))
         ELSE MoveSorted(m, Tail(names), sorted)

sort_elements(robot) ==
    LET sorted_links == MoveSorted(robot.links, SortNames(IMKeys(robot.links)), <<>>)
        sorted_joints == MoveSorted(robot.joints, SortNames(IMKeys(robot.joints)), <<>>)
    IN  [robot |-> [robot EXCEPT !.links = sorted_links, !.joints = sorted_joints],
         changes |-> (IF IMKeys(robot.links) # IMKeys(sorted_links)
                      THEN <<<<"Sorted links alphabetically">>>> ELSE <<>>)
                     \o (IF IMKeys(robot.joints) # IMKeys(sorted_joints)
                         THEN <<<<"Sorted joints alphabetically">>>> ELSE <<>>)]

FixOptions(remove_duplicates_, fix_naming, add_missing, clean_whitespace, sort_, remove_unused) ==
    [remove_duplicates |-> remove_duplicates_, fix_naming |-> fix_naming,
     add_missing_properties |-> add_missing, clean_whitespace |-> clean_whitespace,
     sort_elements |-> sort_, remove_unused_materials |-> remove_unused]

FixOptionsDefault == FixOptions(TRUE, FALSE, FALSE, TRUE, FALSE, TRUE)

\* fix_document: the transforms in their fixed order.  Returns the document,
\* the change log, the model before the first and after each transform, and
\* the renames fix-naming made.
fix_document(d, options) ==
    With(IF options.remove_duplicates THEN remove_duplicates(d.robot)
         ELSE [robot |-> d.robot, changes |-> <<>>], LAMBDA s1 :
    With(IF options.remove_unused_materials THEN remove_unused_materials(s1.robot)
         ELSE [robot |-> s1.robot, changes |-> <<>>], LAMBDA s2 :
    With(IF options.fix_naming THEN fix_naming_conventions(s2.robot)
         ELSE [robot |-> s2.robot, changes |-> <<>>, renames |-> <<>>], LAMBDA s3 :
    With(IF options.add_missing_properties THEN add_missing_properties(s3.robot)
         ELSE [robot |-> s3.robot, changes |-> <<>>], LAMBDA s4 :
    With(IF options.sort_elements THEN sort_elements(s4.robot)
         ELSE [robot |-> s4.robot, changes |-> <<>>], LAMBDA s5 :
    With([d EXCEPT !.robot = s5.robot], LAMBDA d5 :
         [doc |-> IF options.clean_whitespace THEN regenerate_xml(d5) ELSE d5,
          changes |-> s1.changes \o s2.changes \o s3.changes \o s4.changes \o s5.changes
                      \o (IF options.clean_whitespace
                          THEN <<<<"Cleaned whitespace and formatting">>>> ELSE <<>>),
          stages |-> <<d.robot, s1.robot, s2.robot, s3.robot, s4.robot, s5.robot>>,
          renames |-> s3.renames]))))))

format_document(d) == regenerate_xml(d)

(***************************************************************************)
(* Analyzer (processor.rs)                                                 *)
(***************************************************************************)
\* HashMap<String, Vec<String>>: parent name -> the children, in joint order
build_adjacency_list(robot) ==
    [p \in {robot.joints[i].value.parent : i \in DOMAIN robot.joints} |->
        LET js == SelectSeq(robot.joints, LAMBDA e : e.value.parent = p)
        IN  [i \in DOMAIN js |-> js[i].value.child]]

graph_get(graph, node) == IF node \in DOMAIN graph THEN graph[node] ELSE <<>>

find_root_links(robot) ==
    LET child_links == {robot.joints[i].value.child : i \in DOMAIN robot.joints}
    IN  SelectSeq(IMKeys(robot.links), LAMBDA link_name : link_name \notin child_links)

find_leaf_links(robot) ==
    LET parent_links == {robot.joints[i].value.parent : i \in DOMAIN robot.joints}
    IN  SelectSeq(IMKeys(robot.links), LAMBDA link_name : link_name \notin parent_links)

find_orphaned_links(robot) ==
    LET connected_links == {robot.joints[i].value.parent : i \in DOMAIN robot.joints}
                           \cup {robot.joints[i].value.child : i \in DOMAIN robot.joints}
    IN  SelectSeq(IMKeys(robot.links), LAMBDA link_name : link_name \notin connected_links)

RECURSIVE dfs_has_cycle(_, _, _, _)
RECURSIVE dfs_has_cycle_children(_, _, _, _, _)
\* returns [found, visited, rec_stack]
dfs_has_cycle(graph, node, visited, rec_stack) ==
    LET r == dfs_has_cycle_children(graph, graph_get(graph, node), 1,
                                    visited \cup {node}, rec_stack \cup {node})
    IN  IF r.found THEN r
        ELSE [found |-> FALSE, visited |-> r.visited, rec_stack |-> r.rec_stack \ {node}]

\* for child in children { ... }
dfs_has_cycle_children(graph, children, i, visited, rec_stack) ==
    IF i > Len(children) THEN [found |-> FALSE, visited |-> visited, rec_stack |-> rec_stack]
    ELSE LET child == children[i]
         IN  IF child \notin visited
             THEN LET r == dfs_has_cycle(graph, child, visited, rec_stack)
                  IN  IF r.found THEN r
                      ELSE dfs_has_cycle_children(graph, children, i + 1, r.visited, r.rec_stack)
             ELSE IF child \in rec_stack
                  THEN [found |-> TRUE, visited |-> visited, rec_stack |-> rec_stack]
                  ELSE dfs_has_cycle_children(graph, children, i + 1, visited, rec_stack)

RECURSIVE has_cycles_from(_, _, _, _, _)
\* for link in links.keys() { if !visited.contains(link) { ... } }
has_cycles_from(graph, links, i, visited, rec_stack) ==
    IF i > Len(links) THEN FALSE
    ELSE IF links[i] \notin visited
         THEN LET r == dfs_has_cycle(graph, links[i], visited, rec_stack)
              IN  IF r.found THEN TRUE
                  ELSE has_cycles_from(graph, links, i + 1, r.visited, r.rec_stack)
         ELSE has_cycles_from(graph, links, i + 1, visited, rec_stack)

has_cycles(robot) ==
    has_cycles_from(build_adjacency_list(robot), IMKeys(robot.links), 1, {}, {})

\* Ok(()) is the empty error list
validate_kinematic_tree(robot) ==
    LET root_links == find_root_links(robot)
        orphaned_links == find_orphaned_links(robot)
    IN  (IF Len(root_links) # 1
         THEN <<<<"Expected exactly 1 root link", Len(root_links), root_links>>>> ELSE <<>>)
        \o (IF has_cycles(robot) THEN <<<<"Kinematic tree contains cycles">>>> ELSE <<>>)
        \o (IF orphaned_links # <<>>
            THEN <<<<"Found orphaned links", orphaned_links>>>> ELSE <<>>)

RECURSIVE FlattenSeqs(_)
\* the concatenation of a sequence of sequences
FlattenSeqs(parts) == IF parts = <<>> THEN <<>> ELSE Head(parts) \o FlattenSeqs(Tail(parts))
(***************************************************************************)
(* Statistics (processor.rs)                                               *)
(***************************************************************************)
\* HashMap<String, usize>: a function from the joint types met to their count
count_joint_types(robot) ==
    [t \in {robot.joints[i].value.joint_type : i \in DOMAIN robot.joints} |->
        Cardinality({i \in DOMAIN robot.joints : robot.joints[i].value.joint_type = t})]

analyze_link_properties(robot) ==
    LET n(P(_)) == Cardinality({i \in DOMAIN robot.links : P(robot.links[i].value)})
    IN  [with_visual |-> n(LAMBDA link : link.visual # <<>>),
         with_collision |-> n(LAMBDA link : link.collision # <<>>),
         with_inertial |-> n(LAMBDA link : is_some(link.inertial)),
         empty_links |-> n(LAMBDA link : link.visual = <<>> /\ link.collision = <<>>
                                         /\ is_none(link.inertial))]

find_root_links_from_robot(robot) == find_root_links(robot)
find_leaf_links_from_robot(robot) == find_leaf_links(robot)

max(a, b) == IF a >= b THEN a ELSE b

RECURSIVE dfs_depth(_, _, _)
RECURSIVE dfs_depth_children(_, _, _, _, _)
\* returns [depth, visited]; visited is the one set of the whole search
dfs_depth(graph, node, visited) ==
    IF node \in visited THEN [depth |-> 0, visited |-> visited]
    ELSE With(dfs_depth_children(graph, graph_get(graph, node), 1, visited \cup {node}, 0),
              LAMBDA r : [depth |-> r.depth + 1, visited |-> r.visited])

\* for child in children { max_depth = max_depth.max(dfs_depth(child)) }
dfs_depth_children(graph, children, i, visited, max_depth) ==
    IF i > Len(children) THEN [depth |-> max_depth, visited |-> visited]
    ELSE With(dfs_depth(graph, children[i], visited), LAMBDA r :
              dfs_depth_children(graph, children, i + 1, r.visited, max(max_depth, r.depth)))

RECURSIVE calculate_tree_depth_loop(_, _, _, _)
\* for root in &root_links: a fresh visited set per root
calculate_tree_depth_loop(graph, root_links, i, max_depth) ==
    IF i > Len(root_links) THEN max_depth
    ELSE calculate_tree_depth_loop(graph, root_links, i + 1,
             max(max_depth, dfs_depth(graph, root_links[i], {}).depth))

calculate_tree_depth(robot) ==
    IF find_root_links_from_robot(robot) = <<>> THEN 0
    ELSE calculate_tree_depth_loop(build_adjacency_list(robot),
                                   find_root_links_from_robot(robot), 1, 0)

RECURSIVE dfs_path(_, _, _, _, _)
RECURSIVE dfs_path_children(_, _, _, _, _, _)
\* returns [found, path, visited]
dfs_path(graph, current, target, path, visited) ==
    IF current = target
    THEN [found |-> TRUE, path |-> Append(path, current), visited |-> visited \cup {current}]
    ELSE With(dfs_path_children(graph, graph_get(graph, current), 1, target,
                                Append(path, current), visited \cup {current}),
              LAMBDA r : IF r.found THEN r
                         ELSE [found |-> FALSE, path |-> path, visited |-> r.visited])

dfs_path_children(graph, children, i, target, path, visited) ==
    IF i > Len(children) THEN [found |-> FALSE, path |-> path, visited |-> visited]
    ELSE IF children[i] \notin visited
    THEN With(dfs_path(graph, children[i], target, path, visited), LAMBDA r :
              IF r.found THEN r
              ELSE dfs_path_children(graph, children, i + 1, target, r.path, r.visited))
    ELSE dfs_path_children(graph, children, i + 1, target, path, visited)

\* for each step of the path the first joint from its parent to its child
get_joints_in_path(path, robot) ==
    LET first(i) == CHOOSE j \in DOMAIN robot.joints :
                        /\ robot.joints[j].value.parent = path[i]
                        /\ robot.joints[j].value.child = path[i + 1]
                        /\ \A k \in 1..(j - 1) : ~ (/\ robot.joints[k].value.parent = path[i]
                                                    /\ robot.joints[k].value.child = path[i + 1])
        found(i) == \E j \in DOMAIN robot.joints : /\ robot.joints[j].value.parent = path[i]
                                                   /\ robot.joints[j].value.child = path[i + 1]
        steps == SelectSeq([i \in 1..(Len(path) - 1) |-> i], found)
    IN  [s \in DOMAIN steps |-> robot.joints[first(steps[s])].key]

\* Option<KinematicChain>
find_path(graph, start, end, robot) ==
    With(dfs_path(graph, start, end, <<>>, {}), LAMBDA r :
         IF r.found
         THEN Some([name |-> <<start, "_to_", end>>, links |-> r.path,
                    joints |-> get_joints_in_path(r.path, robot), length |-> Len(r.path)])
         ELSE None)

\* for leaf in &leaf_links { for root in &root_links { ... } }
find_kinematic_chains(robot) ==
    LET graph == build_adjacency_list(robot)
        leaf_links == find_leaf_links_from_robot(robot)
        root_links == find_root_links_from_robot(robot)
        per_leaf(l) == FlattenSeqs([r \in DOMAIN root_links |->
                                       find_path(graph, root_links[r], leaf_links[l], robot)])
    IN  FlattenSeqs([l \in DOMAIN leaf_links |-> per_leaf(l)])

analyze(d) ==
    [total_links |-> Len(d.robot.links),
     total_joints |-> Len(d.robot.joints),
     total_materials |-> Len(d.robot.materials),
     joint_types |-> count_joint_types(d.robot),
     link_properties |-> analyze_link_properties(d.robot),
     tree_depth |-> calculate_tree_depth(d.robot),
     kinematic_chains |-> find_kinematic_chains(d.robot)]

UrdfIssue(severity, category, message, element_name) ==
    [severity |-> severity, category |-> category, message |-> message,
     element_name |-> element_name]

check_naming_conventions(robot) ==
    LET bad_links == SelectSeq(IMKeys(robot.links), LAMBDA n : ~ is_valid_name(n))
        bad_joints == SelectSeq(IMKeys(robot.joints), LAMBDA n : ~ is_valid_name(n))
    IN  [i \in DOMAIN bad_links |->
            UrdfIssue("Warning", "Naming", <<"Link name doesn't follow naming conventions", bad_links[i]>>,
                      Some(bad_links[i]))]
        \o [i \in DOMAIN bad_joints |->
            UrdfIssue("Warning", "Naming", <<"Joint name doesn't follow naming conventions", bad_joints[i]>>,
                      Some(bad_joints[i]))]

check_structural_issues(robot) ==
    LET validation_errors == validate_kinematic_tree(robot)
    IN  [i \in DOMAIN validation_errors |->
            UrdfIssue("Error", "Structure", validation_errors[i], None)]

check_physics_properties(robot) ==
    LET hit == SelectSeq(robot.links,
                         LAMBDA e : is_none(e.value.inertial)
                                    /\ (e.value.visual # <<>> \/ e.value.collision # <<>>))
    IN  [i \in DOMAIN hit |->
            UrdfIssue("Warning", "Physics", <<"Link has geometry but no inertial properties", hit[i].key>>,
                      Some(hit[i].key))]

\* find_duplicate_names: the names counted more than once
find_duplicate_names(names) ==
    {n \in {names[i] : i \in DOMAIN names} : Cardinality({i \in DOMAIN names : names[i] = n}) > 1}

\* the issue is pushed when a category has more than one duplicated name
check_duplicate_elements(robot) ==
    LET dup(category, m) ==
            IF Cardinality(find_duplicate_names(IMKeys(m))) > 1
            THEN <<UrdfIssue("Error", "Validation",
                             <<"Duplicate found", category, find_duplicate_names(IMKeys(m))>>, None)>>
            ELSE <<>>
    IN  dup("links", robot.links) \o dup("joints", robot.joints) \o dup("materials", robot.materials)

check_unused_materials(robot) ==
    LET used == UNION { { robot.links[i].value.visual[v].material[1].name :
                            v \in { w \in DOMAIN robot.links[i].value.visual :
                                       is_some(robot.links[i].value.visual[w].material) } } :
                        i \in DOMAIN robot.links }
        unused == SelectSeq(IMKeys(robot.materials), LAMBDA n : n \notin used)
    IN  [i \in DOMAIN unused |->
            UrdfIssue("Info", "Style", <<"Unused material", unused[i]>>, Some(unused[i]))]

\* check_joint_limits looking at revolute joints only
check_joint_limits_revolute_only(robot) ==
    LET hit == SelectSeq(robot.joints,
                         LAMBDA e : e.value.joint_type = "revolute" /\ is_none(e.value.limit))
    IN  [i \in DOMAIN hit |->
            UrdfIssue("Warning", "Physics",
                      <<"Joint is missing limit specification", hit[i].key, hit[i].value.joint_type>>,
                      Some(hit[i].key))]

check_joint_limits(robot) ==
    LET hit == SelectSeq(robot.joints,
                         LAMBDA e : /\ e.value.joint_type \in {"revolute", "prismatic"}
                                    /\ is_none(e.value.limit))
    IN  [i \in DOMAIN hit |->
            UrdfIssue("Warning", "Physics",
                      <<"Joint is missing limit specification", hit[i].key, hit[i].value.joint_type>>,
                      Some(hit[i].key))]

lint(d) ==
    check_naming_conventions(d.robot)
    \o check_structural_issues(d.robot)
    \o check_physics_properties(d.robot)
    \o check_duplicate_elements(d.robot)
    \o check_unused_materials(d.robot)
    \o check_joint_limits(d.robot)

(***************************************************************************)
(* Parser (parser.rs).  The Reader is the text (an event sequence) and a   *)
(* position; past the last event it yields Eof.  Every parse function      *)
(* returns [err, pos, value]: err is None or Some(error), pos the Reader's *)
(* position afterwards.                                                    *)
(***************************************************************************)
read_event(text, pos) == IF pos > Len(text) THEN EvEof ELSE text[pos]

Ok(pos, value) == [err |-> None, pos |-> pos, value |-> value]
Err(pos, error) == [err |-> Some(error), pos |-> pos, value |-> None]
MissingAttribute(attr_name) == <<"MissingAttribute", attr_name>>
InvalidStructure(msg) == <<"InvalidStructure", msg>>

\* Some(value of the first attribute named attr_name), else None; the value
\* is taken as written (no unescaping).
get_optional_attribute(element, attr_name) ==
    IF \E i \in DOMAIN element.attrs : element.attrs[i].key = attr_name
    THEN Some(element.attrs[CHOOSE i \in DOMAIN element.attrs :
                               /\ element.attrs[i].key = attr_name
                               /\ \A j \in 1..(i - 1) : element.attrs[j].key # attr_name].value)
    ELSE None

\* [err, value]
get_required_attribute(element, attr_name) ==
    With(get_optional_attribute(element, attr_name), LAMBDA a :
         IF is_some(a) THEN [err |-> None, value |-> a[1]]
         ELSE [err |-> Some(MissingAttribute(attr_name)), value |-> None])

\* a skip that stops after the first close tag, whatever the depth
skip_element_first_end(text, pos) ==
    LET ends == {k \in pos..Len(text) : text[k].type = "End"}
    IN  IF ends = {} THEN Len(text) + 1
        ELSE (CHOOSE k \in ends : \A other \in ends : k <= other) + 1

RECURSIVE skip_element_loop(_, _, _)
skip_element_loop(text, pos, depth) ==
    IF depth <= 0 THEN pos
    ELSE LET e == read_event(text, pos)
         IN  CASE e.type = "Start" -> skip_element_loop(text, pos + 1, depth + 1)
               [] e.type = "End" -> skip_element_loop(text, pos + 1, depth - 1)
               [] e.type = "Eof" -> pos
               [] OTHER -> skip_element_loop(text, pos + 1, depth)

\* the Reader's position after the skip; skip_element never fails
skip_element(text, pos) == skip_element_loop(text, pos, 1)

\* f64::from_str on one token: the value is held as its Display form
parse_f64(tok) ==
    CASE tok \in {"0", "1", "-1", "0.5"} -> Some(tok)
      [] tok = "1.0" -> Some("1")
      [] tok = "0.0" -> Some("0")
      [] OTHER -> None

RECURSIVE split_whitespace(_, _)
\* the tokens of an attribute value: a float token is one element, " " separates
split_whitespace(s, i) ==
    IF i > Len(s) THEN <<>>
    ELSE IF is_whitespace(s[i]) THEN split_whitespace(s, i + 1)
    ELSE <<s[i]>> \o split_whitespace(s, i + 1)

\* [err, value]
parse_three_floats(s) ==
    With(split_whitespace(s, 1), LAMBDA toks :
    With([i \in DOMAIN toks |-> parse_f64(toks[i])], LAMBDA parts :
         IF \E i \in DOMAIN parts : is_none(parts[i])
         THEN [err |-> Some(InvalidStructure(<<"Invalid float array", s>>)), value |-> None]
         ELSE IF Len(parts) # 3
         THEN [err |-> Some(InvalidStructure(<<"Expected 3 values, got", Len(parts)>>)), value |-> None]
         ELSE [err |-> None, value |-> <<parts[1][1], parts[2][1], parts[3][1]>>]))

unwrap_or(o, default) == IF is_some(o) THEN o[1] ELSE default

parse_origin_from_attributes(element) ==
    With(parse_three_floats(unwrap_or(get_optional_attribute(element, "xyz"), <<"0", " ", "0", " ", "0">>)),
         LAMBDA xyz :
    With(parse_three_floats(unwrap_or(get_optional_attribute(element, "rpy"), <<"0", " ", "0", " ", "0">>)),
         LAMBDA rpy :
         IF is_some(xyz.err) THEN xyz
         ELSE IF is_some(rpy.err) THEN rpy
         ELSE [err |-> None, value |-> [xyz |-> xyz.value, rpy |-> rpy.value]]))

parse_axis_from_attributes(element) ==
    With(parse_three_floats(unwrap_or(get_optional_attribute(element, "xyz"), <<"1", " ", "0", " ", "0">>)),
         LAMBDA xyz :
         IF is_some(xyz.err) THEN xyz
         ELSE [err |-> None, value |-> [xyz |-> xyz.value]])

\* get_optional_attribute(..).and_then(|s| s.parse().ok()): the whole value
\* must be one float
parse_opt_f64(element, attr_name) ==
    With(get_optional_attribute(element, attr_name), LAMBDA a :
         IF is_some(a) /\ Len(a[1]) = 1 THEN parse_f64(a[1][1]) ELSE None)

parse_limit_from_attributes(element) ==
    [err |-> None,
     value |-> [lower |-> parse_opt_f64(element, "lower"), upper |-> parse_opt_f64(element, "upper"),
                effort |-> parse_opt_f64(element, "effort"),
                velocity |-> parse_opt_f64(element, "velocity")]]

parse_dynamics_from_attributes(element) ==
    [err |-> None,
     value |-> [damping |-> parse_opt_f64(element, "damping"),
                friction |-> parse_opt_f64(element, "friction")]]

parse_mimic_from_attributes(element) ==
    With(get_required_attribute(element, "joint"), LAMBDA joint :
         IF is_some(joint.err) THEN joint
         ELSE [err |-> None,
               value |-> Mimic(joint.value, parse_opt_f64(element, "multiplier"),
                               parse_opt_f64(element, "offset"))])

parse_inertial(text, pos, start_event) ==
    Ok(skip_element(text, pos), [mass |-> "1", origin |-> None, inertia |-> None])

\* parse_visual keeping the reference of a material written first in the visual
parse_visual_material(text, pos, start_event) ==
    Ok(skip_element(text, pos),
       Visual(get_optional_attribute(start_event, "name"), None, None,
              IF read_event(text, pos).name = "material"
                 /\ is_some(get_optional_attribute(read_event(text, pos), "name"))
              THEN Some(MaterialRef(get_optional_attribute(read_event(text, pos), "name")[1]))
              ELSE None))

parse_visual(text, pos, start_event) ==
    Ok(skip_element(text, pos),
       Visual(get_optional_attribute(start_event, "name"), None, None, None))

parse_collision(text, pos, start_event) ==
    Ok(skip_element(text, pos),
       Collision(get_optional_attribute(start_event, "name"), None, None))

parse_material(text, pos, start_event) ==
    With(get_required_attribute(start_event, "name"), LAMBDA name :
         IF is_some(name.err) THEN Err(pos, name.err[1])
         ELSE Ok(skip_element(text, pos), Material(name.value, None, None)))

parse_gazebo(text, pos, start_event) ==
    Ok(skip_element(text, pos),
       [reference |-> get_optional_attribute(start_event, "reference"), content |-> <<>>])

parse_transmission(text, pos, start_event) ==
    With(get_required_attribute(start_event, "name"), LAMBDA name :
         IF is_some(name.err) THEN Err(pos, name.err[1])
         ELSE Ok(skip_element(text, pos), [name |-> name.value, content |-> <<>>]))

RECURSIVE parse_link_loop(_, _, _)
parse_link_loop(text, pos, link) ==
    With(read_event(text, pos), LAMBDA e :
         CASE e.type = "Start" /\ e.name = "inertial" ->
                With(parse_inertial(text, pos + 1, e), LAMBDA r :
                     parse_link_loop(text, r.pos, [link EXCEPT !.inertial = Some(r.value)]))
           [] e.type = "Start" /\ e.name = "visual" ->
                With(parse_visual(text, pos + 1, e), LAMBDA r :
                     parse_link_loop(text, r.pos, [link EXCEPT !.visual = Append(@, r.value)]))
           [] e.type = "Start" /\ e.name = "collision" ->
                With(parse_collision(text, pos + 1, e), LAMBDA r :
                     parse_link_loop(text, r.pos, [link EXCEPT !.collision = Append(@, r.value)]))
           [] e.type = "Start" /\ e.name \notin {"inertial", "visual", "collision"} ->
                parse_link_loop(text, skip_element(text, pos + 1), link)
           [] e.type = "End" /\ e.name = "link" -> Ok(pos + 1, link)
           [] e.type = "Eof" -> Err(pos, InvalidStructure("Unexpected end of file"))
           [] OTHER -> parse_link_loop(text, pos + 1, link))

parse_link(text, pos, start_event) ==
    With(get_required_attribute(start_event, "name"), LAMBDA name :
         IF is_some(name.err) THEN Err(pos, name.err[1])
         ELSE parse_link_loop(text, pos, Link(name.value, None, <<>>, <<>>)))

\* Ok(joint with the parsed value set) or the error
joint_with(pos, a, joint) ==
    IF is_some(a.err) THEN Err(pos, a.err[1]) ELSE Ok(pos, joint)

\* one child tag of a joint (Event::Empty or Event::Start): [err, pos, value]
parse_joint_child(text, pos, e, joint) ==
    CASE e.name = "parent" ->
           With(get_required_attribute(e, "link"), LAMBDA a :
                joint_with(pos, a, [joint EXCEPT !.parent = a.value]))
      [] e.name = "child" ->
           With(get_required_attribute(e, "link"), LAMBDA a :
                joint_with(pos, a, [joint EXCEPT !.child = a.value]))
      [] e.name = "origin" ->
           With(parse_origin_from_attributes(e), LAMBDA a :
                joint_with(pos, a, [joint EXCEPT !.origin = Some(a.value)]))
      [] e.name = "axis" ->
           With(parse_axis_from_attributes(e), LAMBDA a :
                joint_with(pos, a, [joint EXCEPT !.axis = Some(a.value)]))
      [] e.name = "limit" ->
           Ok(pos, [joint EXCEPT !.limit = Some(parse_limit_from_attributes(e).value)])
      [] e.name = "dynamics" ->
           Ok(pos, [joint EXCEPT !.dynamics = Some(parse_dynamics_from_attributes(e).value)])
      [] e.name = "mimic" ->
           With(parse_mimic_from_attributes(e), LAMBDA a :
                joint_with(pos, a, [joint EXCEPT !.mimic = Some(a.value)]))
      [] OTHER ->
           \* the next event is read (and dropped); the skip runs when it is a Start
           IF read_event(text, pos).type = "Start"
           THEN Ok(skip_element(text, pos + 1), joint)
           ELSE Ok(IF pos > Len(text) THEN pos ELSE pos + 1, joint)

RECURSIVE parse_joint_loop(_, _, _)
parse_joint_loop(text, pos, joint) ==
    With(read_event(text, pos), LAMBDA e :
         CASE e.type \in {"Empty", "Start"} ->
                With(parse_joint_child(text, pos + 1, e, joint), LAMBDA r :
                     IF is_some(r.err) THEN r ELSE parse_joint_loop(text, r.pos, r.value))
           [] e.type = "End" /\ e.name = "joint" -> Ok(pos + 1, joint)
           [] e.type = "Eof" -> Err(pos, InvalidStructure("Unexpected end of file"))
           [] OTHER -> parse_joint_loop(text, pos + 1, joint))

parse_joint(text, pos, start_event) ==
    With(get_required_attribute(start_event, "name"), LAMBDA name :
    With(get_required_attribute(start_event, "type"), LAMBDA joint_type :
         IF is_some(name.err) THEN Err(pos, name.err[1])
         ELSE IF is_some(joint_type.err) THEN Err(pos, joint_type.err[1])
         ELSE parse_joint_loop(text, pos,
                  Joint(name.value, joint_type.value, <<>>, <<>>, None, None, None, None, None))))

RECURSIVE parse_robot_loop(_, _, _)
parse_robot_loop(text, pos, robot) ==
    With(read_event(text, pos), LAMBDA e :
         CASE e.type = "Start" /\ e.name = "link" ->
                With(parse_link(text, pos + 1, e), LAMBDA r :
                     IF is_some(r.err) THEN r
                     ELSE parse_robot_loop(text, r.pos,
                              [robot EXCEPT !.links = IMInsert(@, r.value.name, r.value)]))
           [] e.type = "Start" /\ e.name = "joint" ->
                With(parse_joint(text, pos + 1, e), LAMBDA r :
                     IF is_some(r.err) THEN r
                     ELSE parse_robot_loop(text, r.pos,
                              [robot EXCEPT !.joints = IMInsert(@, r.value.name, r.value)]))
           [] e.type = "Start" /\ e.name = "material" ->
                With(parse_material(text, pos + 1, e), LAMBDA r :
                     IF is_some(r.err) THEN r
                     ELSE parse_robot_loop(text, r.pos,
                              [robot EXCEPT !.materials = IMInsert(@, r.value.name, r.value)]))
           [] e.type = "Start" /\ e.name = "gazebo" ->
                With(parse_gazebo(text, pos + 1, e), LAMBDA r :
                     parse_robot_loop(text, r.pos,
                              [robot EXCEPT !.gazebo_elements = Append(@, r.value)]))
           [] e.type = "Start" /\ e.name = "transmission" ->
                With(parse_transmission(text, pos + 1, e), LAMBDA r :
                     IF is_some(r.err) THEN r
                     ELSE parse_robot_loop(text, r.pos,
                              [robot EXCEPT !.transmission_elements = Append(@, r.value)]))
           [] e.type = "Start"
              /\ e.name \notin {"link", "joint", "material", "gazebo", "transmission"} ->
                parse_robot_loop(text, skip_element(text, pos + 1), robot)
           [] e.type = "End" /\ e.name = "robot" -> Ok(pos + 1, robot)
           [] e.type = "Eof" -> Err(pos, InvalidStructure("Unexpected end of file"))
           [] OTHER -> parse_robot_loop(text, pos + 1, robot))

parse_robot(text, pos, start_event) ==
    With(get_required_attribute(start_event, "name"), LAMBDA name :
         IF is_some(name.err) THEN Err(pos, name.err[1])
         ELSE parse_robot_loop(text, pos, Robot(name.value, <<>>, <<>>, <<>>, <<>>, <<>>)))

RECURSIVE parse_string_loop(_, _, _)
parse_string_loop(text, pos, robot) ==
    With(read_event(text, pos), LAMBDA e :
         CASE e.type = "Start" /\ e.name = "robot" ->
                With(parse_robot(text, pos + 1, e), LAMBDA r :
                     IF is_some(r.err) THEN r ELSE parse_string_loop(text, r.pos, Some(r.value)))
           [] e.type = "Eof" ->
                IF is_some(robot) THEN Ok(pos, UrdfDocument(robot[1], text))
                ELSE Err(pos, InvalidStructure("No robot element found"))
           [] OTHER -> parse_string_loop(text, pos + 1, robot))

\* [err, pos, value]: value is the UrdfDocument when err is None
parse_string(xml_content) == parse_string_loop(xml_content, 1, None)

(***************************************************************************)
(* The documents the operations are run on                                 *)
(***************************************************************************)
\* names: one that breaks the convention by a leading blank, one by a
\* leading digit, one that follows it
LinkNames == {<<" ", "1">>, <<"1">>, <<"_", "1">>}
JointNameSeq == << <<"j">>, <<"J">>, <<"j", "1">>, <<"J", "1">> >>
JointNames == {<<"j">>, <<"1">>}
MatNames == {<<"r", "e", "d">>, <<"b">>}
BaseLink == <<"b", "a", "s", "e", "_", "l", "i", "n", "k">>
BadLink == <<"1", "b", "a", "d", "_", "l", "i", "n", "k">>

InjSeqs(S, n) ==
    UNION { {q \in [1..k -> S] : \A i, j \in 1..k : i # j => q[i] # q[j]} : k \in 0..n }

SeqsUpTo(S, n) == UNION { [1..k -> S] : k \in 0..n }

\* an IndexMap filled by insert(v.name, v) for each value in turn
IMFrom(values) == [i \in DOMAIN values |-> [key |-> values[i].name, value |-> values[i]]]

BareLink(name) == Link(name, None, <<>>, <<>>)
PlainJoint(name, joint_type, parent, child, limit, mimic) ==
    Joint(name, joint_type, parent, child, None, None, limit, None, mimic)
SomeLimit == Some([lower |-> Some("-1"), upper |-> Some("1"), effort |-> None, velocity |-> None])
SomeInertial == Some([mass |-> "1", origin |-> None, inertia |-> None])

NewDoc(links, joints, materials) ==
    regenerate_xml(UrdfDocument(Robot(<<"r">>, IMFrom(links), IMFrom(joints), IMFrom(materials),
                                      <<>>, <<>>), <<>>))

\* bare links, joints between any two names
GraphDocs(max_links, max_joints) ==
    { NewDoc([i \in DOMAIN ls |-> BareLink(ls[i])],
             [i \in DOMAIN js |-> PlainJoint(JointNameSeq[i], "revolute", js[i][1], js[i][2], None, None)],
             <<>>) :
        ls \in InjSeqs(LinkNames, max_links),
        js \in SeqsUpTo(LinkNames \X LinkNames, max_joints) }

DocsGraph == GraphDocs(MaxLinks, MaxEdges)

\* joints that mimic one another
DocsMimic ==
    { NewDoc(<<BareLink(<<"_", "1">>), BareLink(<<"1">>)>>,
             [i \in DOMAIN ns |-> PlainJoint(ns[i], "revolute", <<"_", "1">>, <<"1">>, None, ms[i])],
             <<>>) :
        <<ns, ms>> \in { <<ns, ms>> \in InjSeqs(JointNames, MaxJoints)
                                        \X SeqsUpTo({None} \cup {Some(Mimic(n, None, None)) : n \in JointNames},
                                                    MaxJoints) :
                         Len(ns) = Len(ms) } }

\* joint types and limits
DocsJointKinds ==
    { NewDoc(<<BareLink(<<"_", "1">>), BareLink(<<"1">>)>>,
             [i \in DOMAIN ks |-> PlainJoint(JointNameSeq[i], ks[i][1], <<"_", "1">>, <<"1">>, ks[i][2], None)],
             <<>>) :
        ks \in SeqsUpTo({"revolute", "prismatic", "fixed"} \X {None, SomeLimit}, MaxJoints) }

LinkBodies ==
    { [inertial |-> None, visual |-> <<>>, collision |-> <<>>],
      [inertial |-> None, visual |-> <<Visual(None, None, None, None)>>, collision |-> <<>>],
      [inertial |-> SomeInertial, visual |-> <<>>, collision |-> <<Collision(None, None, None)>>] }
    \cup { [inertial |-> None, visual |-> <<Visual(None, None, None, Some(MaterialRef(m)))>>,
            collision |-> <<>>] : m \in MatNames }

\* links with visuals, materials referenced or not
DocsMaterials ==
    { NewDoc([i \in DOMAIN bs |-> Link(<<"_", "1">> \o [j \in 1..(i - 1) |-> "1"],
                                      bs[i].inertial, bs[i].visual, bs[i].collision)],
             <<>>,
             [i \in DOMAIN ms |-> Material(ms[i], None, None)]) :
        bs \in SeqsUpTo(LinkBodies, MaxLinks),
        ms \in InjSeqs(MatNames, MaxMaterials) }

\* spec.md section 8: links base_link and 1bad_link, one revolute joint
\* from base_link to 1bad_link, no limit
ScenarioLintDoc ==
    NewDoc(<<BareLink(BaseLink), BareLink(BadLink)>>,
           <<PlainJoint(<<"j">>, "revolute", BaseLink, BadLink, None, None)>>,
           <<>>)

InitDocs == DocsGraph \cup DocsMimic \cup DocsMaterials

\* the documents of the analyzer's specification
AnalyzeDocs ==
    GraphDocs(MaxGraphLinks, MaxGraphJoints) \cup DocsJointKinds \cup DocsMaterials
    \cup {ScenarioLintDoc}

\* every name of at most MaxNameLen characters
NameChars == {"b", "B", "1", "_", " ", "-", ".", "U+00E9", "U+00C9", "U+0663"}
Names == SeqsUpTo(NameChars, MaxNameLen)
NamingJointNames == {<<"j">>, <<"1">>, <<"U+00E9">>}

\* one link named n
\* and one joint named m
NamingDocs ==
    { NewDoc(<<BareLink(n)>>, <<PlainJoint(m, "fixed", n, n, None, None)>>, <<>>) :
        n \in Names, m \in NamingJointNames }
    \cup { NewDoc(<<BareLink(<<"b">>)>>, <<PlainJoint(m, "fixed", <<"b">>, <<"b">>, None, None)>>, <<>>) :
        m \in Names }

\* the texts handed to the parser: a robot element holding links, each
\* self-closing or with child elements, and at most one joint
LinkTextNames == {<<"a">>, <<"b">>}
RobotTextNames == {<<"r">>, <<"&", "a", "m", "p", ";">>}
ChildTags == {"inertial", "visual", "collision"}

RECURSIVE FlattenText(_)
FlattenText(parts) == IF parts = <<>> THEN <<>> ELSE Head(parts) \o FlattenText(Tail(parts))

LinkTexts ==
    { <<EvEmpty("link", <<Attr("name", n)>>)>> : n \in LinkTextNames }
    \cup { <<EvStart("link", <<Attr("name", n)>>)>>
           \o FlattenText([i \in DOMAIN kids |-> <<EvStart(kids[i], <<>>), EvEnd(kids[i])>>])
           \o <<EvEnd("link")>> :
             n \in LinkTextNames, kids \in SeqsUpTo(ChildTags, MaxChildren) }

JointTexts ==
    { <<>>,
      <<EvStart("joint", <<Attr("name", <<"j">>), Attr("type", "fixed")>>),
        EvEmpty("parent", <<Attr("link", <<"a">>)>>),
        EvEmpty("child", <<Attr("link", <<"b">>)>>),
        EvEnd("joint")>> }

InputTexts ==
    { <<EvStart("robot", <<Attr("name", rn)>>)>> \o FlattenText(ls) \o jt \o <<EvEnd("robot")>> :
        rn \in RobotTextNames, ls \in SeqsUpTo(LinkTexts, MaxLinks), jt \in JointTexts }
    \cup { <<EvEmpty("robot", <<Attr("name", <<"r">>)>>)>>,
           <<EvStart("robot", <<>>), EvEnd("robot")>> }

\* the texts of the parser's specification: robot elements holding links,
\* materials, auxiliary blocks, unknown elements and joints, with attributes
\* present or absent
Elem(tag, attrs, body) == <<EvStart(tag, attrs)>> \o body \o <<EvEnd(tag)>>

Triple(a, b, c) == <<a, " ", b, " ", c>>

\* child elements of a link
LinkChildTexts ==
    { Elem("visual", <<>>, <<>>),
      Elem("inertial", <<>>, <<EvEmpty("mass", <<Attr("value", <<"1">>)>>)>>),
      Elem("foo", <<>>, <<>>),
      Elem("foo", <<>>, Elem("visual", <<>>, <<>>) \o <<EvEmpty("collision", <<>>)>>),
      Elem("foo", <<>>, Elem("foo", <<>>, Elem("inertial", <<>>, <<>>)) \o Elem("collision", <<>>, <<>>)) }

\* child elements of robot other than joints
RobotChildTexts ==
    { <<EvEmpty("link", <<Attr("name", <<"a">>)>>)>>,
      Elem("link", <<Attr("name", <<"b">>)>>, <<>>),
      Elem("link", <<>>, <<>>),
      Elem("material", <<Attr("name", <<"m">>)>>, <<>>),
      Elem("material", <<>>, <<>>),
      Elem("transmission", <<Attr("name", <<"t">>)>>, <<>>),
      Elem("transmission", <<>>, <<>>),
      Elem("gazebo", <<Attr("reference", <<"b">>)>>, <<>>),
      Elem("joint", <<Attr("name", <<"k">>)>>, <<>>),
      Elem("foo", <<>>, <<>>),
      Elem("foo", <<>>, Elem("link", <<Attr("name", <<"c">>)>>, <<>>)),
      Elem("foo", <<>>, Elem("foo", <<>>, Elem("material", <<Attr("name", <<"n">>)>>, <<>>))
                        \o Elem("joint", <<Attr("name", <<"k">>), Attr("type", "fixed")>>, <<>>)) }
    \cup { Elem("link", <<Attr("name", <<"a">>)>>, kid) : kid \in LinkChildTexts }

LinkElemTexts ==
    { Elem("link", <<Attr("name", <<"a">>)>>, FlattenText(kids)) :
        kids \in SeqsUpTo(LinkChildTexts, MaxChildren) }

\* child elements of a joint
JointChildTexts ==
    { <<EvEmpty("parent", <<Attr("link", <<"a">>)>>)>>,
      <<EvEmpty("child", <<Attr("link", <<"b">>)>>)>>,
      <<EvEmpty("parent", <<>>)>>,
      Elem("child", <<>>, <<>>),
      <<EvEmpty("origin", <<Attr("xyz", Triple("1", "0", "0")), Attr("rpy", Triple("0", "0", "0.5"))>>)>>,
      <<EvEmpty("origin", <<Attr("xyz", <<"1", " ", "0">>)>>)>>,
      <<EvEmpty("origin", <<Attr("rpy", Triple("x", "0", "0"))>>)>>,
      <<EvEmpty("axis", <<Attr("xyz", Triple("0", "0", "1"))>>)>>,
      <<EvEmpty("limit", <<Attr("lower", <<"-1">>), Attr("upper", <<"1">>)>>)>>,
      <<EvEmpty("dynamics", <<Attr("damping", <<"0.5">>)>>)>>,
      <<EvEmpty("mimic", <<Attr("joint", <<"k">>)>>)>>,
      <<EvEmpty("mimic", <<>>)>>,
      <<EvEmpty("foo", <<>>)>>,
      Elem("foo", <<>>, <<>>),
      Elem("foo", <<>>, Elem("bar", <<>>, <<EvEmpty("baz", <<>>)>>)),
      Elem("foo", <<>>, <<EvEmpty("bar", <<>>), EvEmpty("parent", <<Attr("link", <<"z">>)>>)>>) }

JointElemTexts ==
    { Elem("joint", <<Attr("name", <<"j">>), Attr("type", "revolute")>>, FlattenText(kids)) :
        kids \in SeqsUpTo(JointChildTexts, MaxJointChildren) }

\* one element of every kind, written in the reverse of the regeneration order
FullBody ==
    Elem("transmission", <<Attr("name", <<"t">>)>>, <<>>)
    \o Elem("gazebo", <<Attr("reference", <<"b">>)>>, <<>>)
    \o Elem("gazebo", <<>>, <<>>)
    \o Elem("joint", <<Attr("name", <<"j">>), Attr("type", "fixed")>>,
            <<EvEmpty("parent", <<Attr("link", <<"a">>)>>), EvEmpty("child", <<Attr("link", <<"b">>)>>)>>)
    \o Elem("link", <<Attr("name", <<"b">>)>>, Elem("visual", <<>>, <<>>))
    \o Elem("link", <<Attr("name", <<"a">>)>>, <<>>)
    \o Elem("material", <<Attr("name", <<"m">>)>>, <<>>)

\* what stands between <robot name="r"> and </robot>
RobotBodies ==
    { FlattenText(es) : es \in SeqsUpTo(RobotChildTexts, MaxElements) }
    \cup { l \o post : l \in LinkElemTexts,
                         post \in {<<>>, Elem("link", <<Attr("name", <<"b">>)>>, <<>>)} }
    \cup JointElemTexts
    \cup {FullBody}
    \cup { Elem("link", <<Attr("name", <<"a">>)>>, <<>>) \o j
           \o Elem("link", <<Attr("name", <<"b">>)>>, <<>>) : j \in JointElemTexts }

SmallBodies ==
    { <<>>,
      Elem("link", <<Attr("name", <<"b">>)>>, <<>>),
      Elem("link", <<Attr("name", <<"c">>)>>, <<>>) \o Elem("material", <<Attr("name", <<"m">>)>>, <<>>),
      Elem("material", <<>>, <<>>),
      Elem("joint", <<Attr("name", <<"j">>), Attr("type", "fixed")>>, <<>>) }

ParseTexts ==
    { Elem("robot", <<Attr("name", <<"r">>)>>, body) : body \in RobotBodies }
    \cup { FlattenText([i \in DOMAIN bs |-> Elem("robot", <<Attr("name", <<"r", "1">> \o [k \in 1..i |-> "1"])>>, bs[i])]) :
             bs \in UNION { [1..n -> SmallBodies] : n \in 2..MaxRobots } }
    \cup { <<>>,
           <<EvEmpty("robot", <<Attr("name", <<"r">>)>>)>>,
           Elem("robot", <<>>, <<>>),
           Elem("foo", <<>>, <<>>),
           Elem("foo", <<>>, Elem("robot", <<Attr("name", <<"r">>)>>, <<>>)),
           Elem("link", <<Attr("name", <<"a">>)>>, <<>>),
           Elem("robot", <<Attr("name", <<"r">>)>>, <<>>) \o <<EvEmpty("robot", <<Attr("name", <<"q">>)>>)>>,
           Elem("robot", <<Attr("name", <<"r">>)>>, Elem("robot", <<Attr("name", <<"q">>)>>, <<>>)) }

\* the texts whose parsed documents are edited: links, joints and materials
\* written one after the other, names repeated or not; the link written
\* second holds a visual that refers to the material red
EditLinkText(names) ==
    FlattenText([i \in DOMAIN names |->
        Elem("link", <<Attr("name", names[i])>>,
             IF i = 2
             THEN Elem("visual", <<>>, <<EvEmpty("material", <<Attr("name", <<"r", "e", "d">>)>>)>>)
             ELSE <<>>)])

EditJointText(name, parent, child) ==
    Elem("joint", <<Attr("name", name), Attr("type", "fixed")>>,
         <<EvEmpty("parent", <<Attr("link", parent)>>), EvEmpty("child", <<Attr("link", child)>>)>>)

EditMaterialText(name) == Elem("material", <<Attr("name", name)>>, <<>>)

EditTails ==
    { <<>>,
      EditJointText(<<"j">>, <<"1">>, <<"_", "1">>),
      EditJointText(<<"j">>, <<"1">>, <<"_", "1">>) \o EditJointText(<<"j">>, <<"_", "1">>, <<"1">>),
      EditJointText(<<"j">>, <<"1">>, <<"_", "1">>) \o EditJointText(<<"1">>, <<"1">>, <<" ", "1">>),
      EditMaterialText(<<"r", "e", "d">>),
      EditMaterialText(<<"r", "e", "d">>) \o EditMaterialText(<<"r", "e", "d">>),
      EditMaterialText(<<"r", "e", "d">>) \o EditMaterialText(<<"b">>) }

EditTexts ==
    { Elem("robot", <<Attr("name", <<"r">>)>>, EditLinkText(names) \o tail) :
        names \in SeqsUpTo(LinkNames, MaxParsedLinks), tail \in EditTails }

\* texts cut short: every prefix of a few complete texts, the complete text
\* included
Prefixes(text) == {SubSeq(text, 1, n) : n \in 0..Len(text)}

NestedJointText ==
    Elem("robot", <<Attr("name", <<"r">>)>>,
         Elem("joint", <<Attr("name", <<"j">>), Attr("type", "fixed")>>,
              Elem("robot", <<Attr("name", <<"x">>)>>,
                   <<EvEmpty("foo", <<>>)>>
                   \o Elem("joint", <<Attr("name", <<"k">>), Attr("type", "fixed")>>,
                           <<EvEmpty("bar", <<>>)>>))))

CompleteTexts ==
    { Elem("robot", <<Attr("name", <<"r">>)>>, FullBody),
      Elem("robot", <<Attr("name", <<"r">>)>>,
           Elem("link", <<Attr("name", <<"a">>)>>,
                Elem("foo", <<>>, Elem("foo", <<>>, Elem("inertial", <<>>, <<>>))
                                  \o Elem("collision", <<>>, <<>>))
                \o Elem("visual", <<>>, <<EvEmpty("geometry", <<>>)>>))
           \o Elem("foo", <<>>, Elem("link", <<Attr("name", <<"c">>)>>, <<>>))),
      Elem("robot", <<Attr("name", <<"r">>)>>,
           Elem("joint", <<Attr("name", <<"j">>), Attr("type", "revolute")>>,
                <<EvEmpty("parent", <<Attr("link", <<"a">>)>>)>>
                \o Elem("child", <<Attr("link", <<"b">>)>>, <<>>)
                \o <<EvEmpty("limit", <<Attr("lower", <<"-1">>), Attr("upper", <<"1">>)>>)>>)
           \o Elem("material", <<Attr("name", <<"m">>)>>, <<EvEmpty("color", <<>>)>>)),
      Elem("robot", <<Attr("name", <<"r">>)>>,
           Elem("joint", <<Attr("name", <<"j">>), Attr("type", "revolute")>>,
                Elem("foo", <<>>, Elem("bar", <<>>, <<EvEmpty("baz", <<>>)>>))
                \o <<EvEmpty("parent", <<Attr("link", <<"a">>)>>)>>)
           \o Elem("link", <<Attr("name", <<"a">>)>>, <<>>)),
      Elem("foo", <<>>, Elem("robot", <<Attr("name", <<"r">>)>>,
                             Elem("link", <<Attr("name", <<"a">>)>>, <<>>)))
      \o Elem("robot", <<Attr("name", <<"q">>)>>, Elem("gazebo", <<>>, Elem("plugin", <<>>, <<>>))),
      NestedJointText }

TruncatedTexts == UNION {Prefixes(text) : text \in CompleteTexts}

\* the texts whose parsed documents are edited several times
SequenceTexts ==
    { Elem("robot", <<Attr("name", <<"r">>)>>, EditLinkText(names) \o tail) :
        names \in InjSeqs(LinkNames, MaxLinks), tail \in EditTails }

(***************************************************************************)
(* Operations.  `last' records the operation just run: its name, its       *)
(* arguments, what it returned, and the document it was run on.            *)
(***************************************************************************)
Last(op, args, ret, out, aux, pre) ==
    [op |-> op, args |-> args, ret |-> ret, out |-> out, aux |-> aux, pre |-> pre]

ElementTypes == {"link", "joint", "material", "robot"}
NamesOf(element_type) ==
    CASE element_type = "link" -> LinkNames
      [] element_type = "joint" -> JointNames
      [] element_type = "material" -> MatNames
      [] OTHER -> {<<"r">>}

AllFixOptions ==
    { FixOptions(a, b, c, d, e, f) : a \in BOOLEAN, b \in BOOLEAN, c \in BOOLEAN,
                                     d \in BOOLEAN, e \in BOOLEAN, f \in BOOLEAN }
OnlyFixNaming == FixOptions(FALSE, TRUE, FALSE, FALSE, FALSE, FALSE)
\* the default options, fix-naming alone, and everything at once
EditFixOptions == {FixOptionsDefault, OnlyFixNaming, FixOptions(TRUE, TRUE, TRUE, TRUE, TRUE, TRUE)}

EmptyDoc == UrdfDocument(Robot(<<>>, <<>>, <<>>, <<>>, <<>>, <<>>), <<>>)

RemoveWith(max_ops) ==
    /\ pc = "ready"
    /\ ops < max_ops
    /\ ops' = ops + 1
    /\ \E element_type \in ElementTypes : \E name \in NamesOf(element_type) :
         LET r == remove_element(doc, element_type, name)
         IN  /\ doc' = r.doc
             /\ last' = Last("remove", [element_type |-> element_type, name |-> name],
                             r.ret, <<>>, <<>>, doc)
    /\ UNCHANGED <<pc, input>>

RemoveOp == RemoveWith(MaxOps)

RenameWith(max_ops) ==
    /\ pc = "ready"
    /\ ops < max_ops
    /\ ops' = ops + 1
    /\ \E element_type \in ElementTypes : \E old_name, new_name \in NamesOf(element_type) :
         LET r == rename_element(doc, element_type, old_name, new_name)
         IN  /\ doc' = r.doc
             /\ last' = Last("rename", [element_type |-> element_type, old_name |-> old_name,
                                        new_name |-> new_name],
                             r.ret, <<>>, <<>>, doc)
    /\ UNCHANGED <<pc, input>>

RenameOp == RenameWith(MaxOps)

FixWith(choices, max_ops) ==
    /\ pc = "ready"
    /\ ops < max_ops
    /\ ops' = ops + 1
    /\ \E options \in choices :
         LET r == fix_document(doc, options)
         IN  /\ doc' = r.doc
             /\ last' = Last("fix", options, TRUE, r.changes,
                             [stages |-> r.stages, renames |-> r.renames], doc)
    /\ UNCHANGED <<pc, input>>

FixOp == FixWith(AllFixOptions, MaxOps)

FixNamingOp == FixWith({OnlyFixNaming}, MaxFixes)

\* the same operations, up to MaxEdits of them one after the other
RemoveEdit == RemoveWith(MaxEdits)
RenameEdit == RenameWith(MaxEdits)
FixEdit == FixWith(EditFixOptions, MaxEdits)

FormatOp ==
    /\ pc = "ready"
    /\ ops < MaxOps
    /\ ops' = ops + 1
    /\ doc' = format_document(doc)
    /\ last' = Last("format", <<>>, TRUE, <<>>, <<>>, doc)
    /\ UNCHANGED <<pc, input>>

LintOp ==
    /\ pc = "ready"
    /\ last' = Last("lint", <<>>, TRUE, lint(doc), <<>>, doc)
    /\ UNCHANGED <<doc, pc, input, ops>>

AnalyzeOp ==
    /\ pc = "ready"
    /\ last' = Last("analyze", <<>>, TRUE, analyze(doc), <<>>, doc)
    /\ UNCHANGED <<doc, pc, input, ops>>

ValidateOp ==
    /\ pc = "ready"
    /\ LET errors == validate_kinematic_tree(doc.robot)
       IN  last' = Last("validate", <<>>, errors = <<>>, errors, <<>>, doc)
    /\ UNCHANGED <<doc, pc, input, ops>>

\* UrdfParser::parse_string on the input text
ParseInput ==
    /\ pc = "input"
    /\ LET r == parse_string(input)
       IN  IF is_some(r.err)
           THEN /\ pc' = "failed"
                /\ doc' = doc
                /\ last' = Last("parse", input, FALSE, r.err[1], <<>>, doc)
           ELSE /\ pc' = "parsed"
                /\ doc' = r.value
                /\ last' = Last("parse", input, TRUE, <<>>, <<>>, doc)
    /\ UNCHANGED <<input, ops>>

\* format_document on the parsed document
RegenerateParsed ==
    /\ pc = "parsed"
    /\ doc' = format_document(doc)
    /\ pc' = "formatted"
    /\ last' = Last("format", <<>>, TRUE, <<>>, <<>>, doc)
    /\ UNCHANGED <<input, ops>>

\* UrdfParser::parse_string on the regenerated text
ParseRegenerated ==
    /\ pc = "formatted"
    /\ LET r == parse_string(doc.raw_xml)
       IN  IF is_some(r.err)
           THEN /\ doc' = doc
                /\ last' = Last("reparse", doc.raw_xml, FALSE, r.err[1], <<>>, doc)
           ELSE /\ doc' = r.value
                /\ last' = Last("reparse", doc.raw_xml, TRUE, <<>>, <<>>, doc)
    /\ pc' = "reparsed"
    /\ UNCHANGED <<input, ops>>

NoOp(d) == Last("new", <<>>, TRUE, <<>>, <<>>, d)

\* the modifier's operations on a loaded document
Init == doc \in InitDocs /\ last = NoOp(doc) /\ pc = "ready" /\ input = <<>> /\ ops = 0
Next == RemoveOp \/ RenameOp \/ FixOp \/ FormatOp \/ LintOp \/ ValidateOp
Spec == Init /\ [][Next]_vars

\* the analyzer's operations over kinematic graphs
InitAnalyze == doc \in AnalyzeDocs /\ last = NoOp(doc) /\ pc = "ready" /\ input = <<>> /\ ops = 0
NextAnalyze == LintOp \/ ValidateOp \/ AnalyzeOp
SpecAnalyze == InitAnalyze /\ [][NextAnalyze]_vars

\* lint and fix-naming over every short name
InitNaming == doc \in NamingDocs /\ last = NoOp(doc) /\ pc = "ready" /\ input = <<>> /\ ops = 0
NextNaming == LintOp \/ FixNamingOp
SpecNaming == InitNaming /\ [][NextNaming]_vars

\* parse, regenerate, parse again
InitRoundTrip == input \in InputTexts /\ doc = EmptyDoc /\ last = NoOp(doc) /\ pc = "input" /\ ops = 0
NextRoundTrip == ParseInput \/ RegenerateParsed \/ ParseRegenerated
SpecRoundTrip == InitRoundTrip /\ [][NextRoundTrip]_vars

\* the parser over texts with missing attributes, unknown elements and
\* several robot elements
InitParse == input \in ParseTexts /\ doc = EmptyDoc /\ last = NoOp(doc) /\ pc = "input" /\ ops = 0
NextParse == ParseInput \/ RegenerateParsed \/ ParseRegenerated
SpecParse == InitParse /\ [][NextParse]_vars

\* the modifier's operations on documents the parser returned
InitParsed ==
    /\ input \in EditTexts
    /\ doc = parse_string(input).value
    /\ last = NoOp(doc) /\ pc = "ready" /\ ops = 0
NextParsed == RemoveOp \/ RenameOp \/ FixOp \/ LintOp
SpecParsed == InitParsed /\ [][NextParsed]_vars

\* the parser on texts that end early
InitTruncated == input \in TruncatedTexts /\ doc = EmptyDoc /\ last = NoOp(doc) /\ pc = "input" /\ ops = 0
NextTruncated == ParseInput \/ RegenerateParsed \/ ParseRegenerated
SpecTruncated == InitTruncated /\ [][NextTruncated]_vars

\* sequences of edits on a parsed document
InitEdits ==
    /\ input \in SequenceTexts
    /\ doc = parse_string(input).value
    /\ last = NoOp(doc) /\ pc = "ready" /\ ops = 0
NextEdits == RemoveEdit \/ RenameEdit \/ FixEdit
SpecEdits == InitEdits /\ [][NextEdits]_vars

(***************************************************************************)
(* Properties                                                              *)
(***************************************************************************)
\* the link and joint elements written in a text
ElementsNamed(text, name) ==
    {i \in DOMAIN text : text[i].type \in {"Start", "Empty"} /\ text[i].name = name}

\* a robot element with a name, holding one named link and no joint
OneLinkZeroJoints(text) ==
    /\ Cardinality(ElementsNamed(text, "robot")) = 1
    /\ \A i \in ElementsNamed(text, "robot") : text[i].type = "Start" /\ text[i].attrs # <<>>
    /\ Cardinality(ElementsNamed(text, "link")) = 1
    /\ ElementsNamed(text, "joint") = {}

\* C1: for every text with one link and no joint, parsing succeeds, parsing
\* the text regenerated from the parsed model succeeds, and the second model
\* equals the first: same robot name, same links, joints and materials in
\* the same order.
C1_RoundTripEqual ==
    OneLinkZeroJoints(input) =>
        /\ pc # "failed"
        /\ pc = "reparsed" => (last.ret /\ doc.robot = last.pre.robot)

\* the parent -> child graph of the joints
Edges(robot) ==
    {<<robot.joints[i].value.parent, robot.joints[i].value.child>> : i \in DOMAIN robot.joints}

RECURSIVE ReachableFrom(_, _)
ReachableFrom(E, S) ==
    LET T == S \cup {e[2] : e \in {f \in E : f[1] \in S}}
    IN  IF T = S THEN S ELSE ReachableFrom(E, T)

HasDirectedCycle(robot) ==
    \E e \in Edges(robot) : e[1] \in ReachableFrom(Edges(robot), {e[2]})

LinkKeys(robot) == {robot.links[i].key : i \in DOMAIN robot.links}

ExactlyOneRoot(robot) ==
    Cardinality({k \in LinkKeys(robot) : \A e \in Edges(robot) : e[2] # k}) = 1

NoOrphan(robot) ==
    \A k \in LinkKeys(robot) : \E e \in Edges(robot) : e[1] = k \/ e[2] = k

SingleLinkRobot(robot) == Len(robot.links) = 1 /\ robot.joints = <<>>

\* C2: validate_kinematic_tree returns Ok exactly when one link is never a
\* joint's child, the parent -> child graph has no cycle, and every link is
\* some joint's parent or child, the robot of one link and no joint being
\* exempt from the last condition.
C2_ValidateIff ==
    last.op = "validate" =>
        (last.ret <=> /\ ExactlyOneRoot(doc.robot)
                      /\ ~ HasDirectedCycle(doc.robot)
                      /\ (NoOrphan(doc.robot) \/ SingleLinkRobot(doc.robot)))

\* the link renames an operation made, each with the model before and after
\* it: the one rename of rename(doc, link, old, new) returning true, or the
\* rewrites of the fix-naming transform in the order it made them
LinkRenames ==
    CASE last.op = "rename" /\ last.args.element_type = "link" /\ last.ret ->
           <<[kind |-> "link", old |-> last.args.old_name, new |-> last.args.new_name,
              before |-> last.pre.robot, after |-> doc.robot]>>
      [] last.op = "fix" -> SelectSeq(last.aux.renames, LAMBDA r : r.kind = "link")
      [] OTHER -> <<>>

\* joints that referenced old reference new, the other fields are unchanged
JointRefsRewritten(r) ==
    /\ Len(r.after.joints) = Len(r.before.joints)
    /\ \A i \in DOMAIN r.before.joints :
         LET b == r.before.joints[i].value
             a == r.after.joints[i].value
         IN  /\ a.parent = IF b.parent = r.old THEN r.new ELSE b.parent
             /\ a.child = IF b.child = r.old THEN r.new ELSE b.child

NoJointReferences(robot, name) ==
    \A i \in DOMAIN robot.joints :
        robot.joints[i].value.parent # name /\ robot.joints[i].value.child # name

\* C3 as stated: after a link is renamed old -> new, every joint whose parent
\* or child was old has new in that field, no joint references old, and
\* joint fields that did not equal old are unchanged.
C3_LinkRenamePropagates ==
    \A k \in DOMAIN LinkRenames :
        /\ JointRefsRewritten(LinkRenames[k])
        /\ NoJointReferences(LinkRenames[k].after, LinkRenames[k].old)

\* C3 amended: after a link is renamed old -> new, every joint whose parent or
\* child was old has new in that field and joint fields that did not equal
\* old are unchanged; when new differs from old, no joint references old.
C3_LinkRenamePropagatesDistinct ==
    \A k \in DOMAIN LinkRenames :
        /\ JointRefsRewritten(LinkRenames[k])
        /\ LinkRenames[k].new # LinkRenames[k].old
              => NoJointReferences(LinkRenames[k].after, LinkRenames[k].old)

\* a link was renamed to another name while one joint had it as parent and
\* another name as child
C3_Witness ==
    \E k \in DOMAIN LinkRenames :
        /\ LinkRenames[k].new # LinkRenames[k].old
        /\ \E i \in DOMAIN LinkRenames[k].before.joints :
             /\ LinkRenames[k].before.joints[i].value.parent = LinkRenames[k].old
             /\ LinkRenames[k].before.joints[i].value.child # LinkRenames[k].old
             /\ LinkRenames[k].after.joints[i].value.parent = LinkRenames[k].new

\* the joint renames an operation made
JointRenames ==
    CASE last.op = "rename" /\ last.args.element_type = "joint" /\ last.ret ->
           <<[kind |-> "joint", old |-> last.args.old_name, new |-> last.args.new_name,
              before |-> last.pre.robot, after |-> doc.robot]>>
      [] last.op = "fix" -> SelectSeq(last.aux.renames, LAMBDA r : r.kind = "joint")
      [] OTHER -> <<>>

MimicOf(joint) == IF is_some(joint.mimic) THEN joint.mimic[1].joint ELSE <<"(none)">>

\* C4: after a joint is renamed old -> new, every other joint whose mimic
\* reference was old has new there, and (new differing from old) no other
\* joint's mimic references old.
C4_JointRenameRewritesMimic ==
    \A k \in DOMAIN JointRenames :
        LET r == JointRenames[k]
        IN  /\ \A i \in DOMAIN r.before.joints :
                 LET b == r.before.joints[i].value
                 IN  (/\ b.name \notin {r.old, r.new}
                      /\ MimicOf(b) = r.old
                      /\ IMContains(r.after.joints, b.name))
                     => MimicOf(IMGet(r.after.joints, b.name)[1]) = r.new
            /\ r.new # r.old =>
                 \A i \in DOMAIN r.after.joints :
                     r.after.joints[i].key # r.new => MimicOf(r.after.joints[i].value) # r.old

\* every joint's parent and child are keys of the links collection
ReferentialIntegrity(robot) ==
    \A i \in DOMAIN robot.joints :
        /\ IMContains(robot.links, robot.joints[i].value.parent)
        /\ IMContains(robot.links, robot.joints[i].value.child)

\* C5: a remove, rename or fix operation on a document in which every joint's
\* parent and child name a link of the links collection leaves a document in
\* which that still holds.
C5_EditsKeepIntegrity ==
    (last.op \in {"remove", "rename", "fix"} /\ ReferentialIntegrity(last.pre.robot))
        => ReferentialIntegrity(doc.robot)

\* C6: a second fix with only fix-naming enabled yields no change entry and
\* the same model as the first, and every rewritten name is a fixed point of
\* fix_name.
C6_FixNamingIdempotent ==
    /\ (last.op = "fix" /\ last.args = OnlyFixNaming /\ ops = 2)
          => (last.out = <<>> /\ doc.robot = last.pre.robot)
    /\ (last.op = "fix" /\ last.args = OnlyFixNaming)
          => \A k \in DOMAIN last.aux.renames :
                fix_name(last.aux.renames[k].new) = last.aux.renames[k].new

\* the reference transform of spec.md section 4.3, applied to the whole name
Lowercase(c) ==
    CASE c = "B" -> "b"
      [] c = "J" -> "j"
      [] c = "U+00C9" -> "U+00E9"
      [] OTHER -> c

RECURSIVE ReferenceChars(_)
ReferenceChars(name) ==
    IF name = <<>> THEN <<>>
    ELSE (IF is_whitespace(Head(name)) \/ Head(name) = "-" THEN <<"_">>
          ELSE IF is_alphanumeric(Head(name)) \/ Head(name) = "_" THEN <<Lowercase(Head(name))>>
          ELSE <<>>)
         \o ReferenceChars(Tail(name))

ReferenceFix(name) ==
    LET body == ReferenceChars(name)
        led == IF name # <<>> /\ is_ascii_digit(name[1]) THEN <<"_">> \o body ELSE body
    IN  IF led = <<>> THEN Unnamed ELSE led

\* C7: every name the fix-naming transform rewrites is rewritten to the
\* reference transform of the whole name: underscore before a leading digit,
\* letters lowercased, whitespace and hyphen (at any position) to underscore,
\* other characters that are not alphanumeric or underscore dropped, an empty
\* result replaced by 'unnamed'.
C7_FixNameIsReference ==
    last.op = "fix" =>
        \A k \in DOMAIN last.aux.renames :
            last.aux.renames[k].new = ReferenceFix(last.aux.renames[k].old)

\* the names some visual of the model references as its material
ReferencedMaterials(robot) ==
    {m \in {robot.materials[i].key : i \in DOMAIN robot.materials} :
        \E i \in DOMAIN robot.links : \E v \in DOMAIN robot.links[i].value.visual :
            robot.links[i].value.visual[v].material = Some(MaterialRef(m))}

MaterialKeys(robot) == {robot.materials[i].key : i \in DOMAIN robot.materials}

RemovedUnused(changes) == SelectSeq(changes, LAMBDA c : c[1] = "Removed unused material")

\* C8: fix with remove-unused-materials enabled keeps every material some
\* visual references and removes every other material with exactly one
\* 'Removed unused material' entry; the material count drops by the number
\* of these entries; links and joints are unchanged by the transform.
\* remove(doc, material, name) never changes the number of links.
C8_RemoveUnusedMaterials ==
    /\ (last.op = "fix" /\ last.args.remove_unused_materials) =>
          LET before == last.aux.stages[2]
              after == last.aux.stages[3]
              removed == RemovedUnused(last.out)
          IN  /\ MaterialKeys(after) = ReferencedMaterials(before)
              /\ \A i \in DOMAIN after.materials :
                    IMGet(before.materials, after.materials[i].key) = Some(after.materials[i].value)
              /\ \A m \in MaterialKeys(before) \ ReferencedMaterials(before) :
                    Cardinality({i \in DOMAIN removed : removed[i][2] = m}) = 1
              /\ \A i \in DOMAIN removed :
                    removed[i][2] \in MaterialKeys(before) \ ReferencedMaterials(before)
              /\ Len(after.materials) = Len(before.materials) - Len(removed)
              /\ after.links = before.links
              /\ after.joints = before.joints
    /\ (last.op = "remove" /\ last.args.element_type = "material") =>
          Len(doc.robot.links) = Len(last.pre.robot.links)

\* a fix that kept a referenced material and removed an unreferenced one
C8_Witness ==
    /\ last.op = "fix"
    /\ last.args.remove_unused_materials
    /\ ReferencedMaterials(last.aux.stages[2]) # {}
    /\ MaterialKeys(last.aux.stages[2]) \ ReferencedMaterials(last.aux.stages[2]) # {}
    /\ Len(doc.robot.materials) = 1
    /\ Len(RemovedUnused(last.out)) = 1

IssuesOf(issues, severity, category) ==
    SelectSeq(issues, LAMBDA i : i.severity = severity /\ i.category = category)

LimitIssues(issues) ==
    SelectSeq(IssuesOf(issues, "Warning", "Physics"),
              LAMBDA i : i.message[1] = "Joint is missing limit specification")

JointsLackingLimit(robot) ==
    SelectSeq(robot.joints,
              LAMBDA e : e.value.joint_type \in {"revolute", "prismatic"} /\ e.value.limit = None)

\* C9: for links base_link and 1bad_link and one revolute joint between them
\* without limit, lint yields one Warning/Naming issue (for 1bad_link), one
\* Warning/Physics issue (the missing limit) and no Error/Structure issue;
\* for every document, the missing-limit issues are one per joint of type
\* revolute or prismatic whose limit is unset, and no other.
C9_LintScenarioAndLimits ==
    last.op = "lint" =>
        /\ doc.robot = ScenarioLintDoc.robot =>
              /\ Len(IssuesOf(last.out, "Warning", "Naming")) = 1
              /\ IssuesOf(last.out, "Warning", "Naming")[1].element_name = Some(BadLink)
              /\ Len(IssuesOf(last.out, "Warning", "Physics")) = 1
              /\ Len(LimitIssues(last.out)) = 1
              /\ IssuesOf(last.out, "Error", "Structure") = <<>>
        /\ [i \in DOMAIN LimitIssues(last.out) |-> LimitIssues(last.out)[i].element_name]
              = [i \in DOMAIN JointsLackingLimit(doc.robot) |->
                    Some(JointsLackingLimit(doc.robot)[i].key)]

\* lint has run on the scenario document and reported its missing limit
C9_Witness ==
    /\ last.op = "lint"
    /\ doc.robot = ScenarioLintDoc.robot
    /\ Len(LimitIssues(last.out)) = 1

\* not empty, ASCII letters, ASCII digits and underscore only, no leading digit
AsciiNameOk(name) ==
    /\ name # <<>>
    /\ \A i \in DOMAIN name : name[i] \in AsciiLower \cup AsciiUpper \cup AsciiDigit \cup {"_"}
    /\ name[1] \notin AsciiDigit

\* C10: the Warning/Naming issues of lint are one per link name, then one per
\* joint name, that is empty, holds a character other than an ASCII letter,
\* an ASCII digit or underscore, or starts with a digit, and no other.
C10_LintFlagsNonAsciiNames ==
    last.op = "lint" =>
        [i \in DOMAIN IssuesOf(last.out, "Warning", "Naming") |->
            IssuesOf(last.out, "Warning", "Naming")[i].element_name[1]]
        = SelectSeq(IMKeys(doc.robot.links), LAMBDA n : ~ AsciiNameOk(n))
          \o SelectSeq(IMKeys(doc.robot.joints), LAMBDA n : ~ AsciiNameOk(n))

\* nesting depth of the event at i: the elements open before it
Depth(text, i) ==
    Cardinality({j \in 1..(i - 1) : text[j].type = "Start"})
    - Cardinality({j \in 1..(i - 1) : text[j].type = "End"})

Max(S) == CHOOSE x \in S : \A y \in S : y <= x
Min(S) == CHOOSE x \in S : \A y \in S : x <= y

\* the start tag of the element that encloses the event at i, 0 at top level
Encl(text, i) ==
    Max({0} \cup {j \in 1..(i - 1) : text[j].type = "Start" /\ Depth(text, j) = Depth(text, i) - 1})

\* the close tag of the element opened at j
Match(text, j) ==
    Min({k \in (j + 1)..Len(text) : text[k].type = "End" /\ Depth(text, k) = Depth(text, j) + 1})

HasAttr(e, key) == \E a \in DOMAIN e.attrs : e.attrs[a].key = key
AttrOf(e, key) == e.attrs[Min({a \in DOMAIN e.attrs : e.attrs[a].key = key})].value

\* a robot element opened at top level, and the elements opened directly in it
RobotAt(text, i) == text[i].type = "Start" /\ text[i].name = "robot" /\ Depth(text, i) = 0
RobotChildAt(text, i, tag) ==
    /\ text[i].type = "Start" /\ text[i].name = tag
    /\ Encl(text, i) # 0 /\ RobotAt(text, Encl(text, i))
JointChildAt(text, i, tag) ==
    /\ text[i].type \in {"Start", "Empty"} /\ text[i].name = tag
    /\ Encl(text, i) # 0 /\ RobotChildAt(text, Encl(text, i), "joint")

\* a recognized element that lacks a required attribute
MissingAttributeAt(text, i) ==
    \/ RobotAt(text, i) /\ ~ HasAttr(text[i], "name")
    \/ \E tag \in {"link", "joint", "material", "transmission"} :
         RobotChildAt(text, i, tag) /\ ~ HasAttr(text[i], "name")
    \/ RobotChildAt(text, i, "joint") /\ ~ HasAttr(text[i], "type")
    \/ \E tag \in {"parent", "child"} : JointChildAt(text, i, tag) /\ ~ HasAttr(text[i], "link")
    \/ JointChildAt(text, i, "mimic") /\ ~ HasAttr(text[i], "joint")

NumericTokens == {"0", "1", "-1", "0.5", "1.0", "0.0"}
BadTriple(s) ==
    LET toks == SelectSeq(s, LAMBDA c : c # " ")
    IN  Len(toks) # 3 \/ \E t \in DOMAIN toks : toks[t] \notin NumericTokens

\* a joint's origin or axis whose xyz or rpy is not three numbers
BadTripleAt(text, i) ==
    \/ JointChildAt(text, i, "origin")
       /\ \E key \in {"xyz", "rpy"} : HasAttr(text[i], key) /\ BadTriple(AttrOf(text[i], key))
    \/ JointChildAt(text, i, "axis")
       /\ HasAttr(text[i], "xyz") /\ BadTriple(AttrOf(text[i], "xyz"))

\* C11: parse returns a document or an error, never a partial document; when
\* a recognized element opened in the text lacks a required attribute the
\* parse fails with MissingAttribute, when an xyz/rpy of a joint is not three
\* numbers it fails with a structural error, whatever stands around it.
C11_ParseAllOrNothing ==
    pc \in {"parsed", "failed"} =>
        LET missing == \E i \in DOMAIN input : MissingAttributeAt(input, i)
            bad == \E i \in DOMAIN input : BadTripleAt(input, i)
        IN  /\ pc = "failed" => doc = EmptyDoc /\ ~ last.ret
            /\ (missing \/ bad) => pc = "failed"
            /\ (missing /\ ~ bad /\ pc = "failed") => last.out[1] = "MissingAttribute"
            /\ (bad /\ ~ missing /\ pc = "failed") => last.out[1] = "InvalidStructure"

\* the robot elements written in a text, open/close pairs or self-closing
RobotElements(text) ==
    {i \in DOMAIN text : text[i].type \in {"Start", "Empty"} /\ text[i].name = "robot"}

NoRobotFound == pc = "failed" /\ last.out = <<"InvalidStructure", "No robot element found">>

\* the text of the element opened at i alone
ElementAt(text, i) == SubSeq(text, i, Match(text, i))

\* C12: parse fails with 'no robot element found' exactly when the text holds
\* no robot element; when the text holds several robot elements one after
\* the other and the parse succeeds, the document is the one the last robot
\* element alone parses to.
C12_NoRobotOrLastRobot ==
    pc \in {"parsed", "failed"} =>
        /\ NoRobotFound <=> RobotElements(input) = {}
        /\ LET tops == {i \in DOMAIN input : RobotAt(input, i)}
           IN  (Cardinality(tops) > 1 /\ pc = "parsed") =>
                   doc.robot = parse_string(ElementAt(input, Max(tops))).value.robot

\* no two entries of the collection have the same key
UniqueKeys(m) == \A i, j \in DOMAIN m : i # j => m[i].key # m[j].key

RemovedDuplicates(changes) ==
    SelectSeq(changes, LAMBDA c : c[1] \in {"Removed duplicate link", "Removed duplicate joint",
                                            "Removed duplicate material"})

\* C13: in a parsed document, and after a remove, rename or fix on it, every
\* collection holds at most one entry per name; lint emits no
\* Error/Validation issue; fix with remove-duplicates enabled removes nothing
\* in that transform and logs no 'Removed duplicate' entry.
C13_DuplicatesVacuous ==
    /\ UniqueKeys(doc.robot.links) /\ UniqueKeys(doc.robot.joints) /\ UniqueKeys(doc.robot.materials)
    /\ last.op = "lint" => IssuesOf(last.out, "Error", "Validation") = <<>>
    /\ (last.op = "fix" /\ last.args.remove_duplicates) =>
           /\ RemovedDuplicates(last.out) = <<>>
           /\ last.aux.stages[2] = last.aux.stages[1]

\* the text named a link twice, and fix ran with remove-duplicates enabled
\* on the document parsed from it
C13_Witness ==
    /\ \E i, j \in ElementsNamed(input, "link") : i # j /\ input[i].attrs = input[j].attrs
    /\ Len(last.pre.robot.links) < Cardinality(ElementsNamed(input, "link"))
    /\ last.op = "fix" /\ last.args.remove_duplicates

\* the k-th smallest member of a set of numbers, as a sequence
Sorted(S) == [k \in 1..Cardinality(S) |-> CHOOSE i \in S : Cardinality({j \in S : j <= i}) = k]

\* the elements written directly inside the root element, in text order:
\* <<tag, Some(name)>>, for gazebo <<tag, reference>>
RootChildren(text) ==
    LET idx == Sorted({i \in DOMAIN text : Depth(text, i) = 1 /\ text[i].type \in {"Start", "Empty"}})
        key(e) == IF e.name = "gazebo" THEN "reference" ELSE "name"
    IN  [k \in DOMAIN idx |->
            <<text[idx[k]].name,
              IF HasAttr(text[idx[k]], key(text[idx[k]]))
              THEN Some(AttrOf(text[idx[k]], key(text[idx[k]]))) ELSE None>>]

\* materials, links, joints, gazebo blocks, transmission blocks, each in
\* collection order
SerializationOrder(robot) ==
    [i \in DOMAIN robot.materials |-> <<"material", Some(robot.materials[i].key)>>]
    \o [i \in DOMAIN robot.links |-> <<"link", Some(robot.links[i].key)>>]
    \o [i \in DOMAIN robot.joints |-> <<"joint", Some(robot.joints[i].key)>>]
    \o [i \in DOMAIN robot.gazebo_elements |-> <<"gazebo", robot.gazebo_elements[i].reference>>]
    \o [i \in DOMAIN robot.transmission_elements |->
            <<"transmission", Some(robot.transmission_elements[i].name)>>]

\* C14: the text format writes is the same whatever the document's previous
\* text was; it lists materials, links, joints, gazebo blocks and
\* transmission blocks in this order, each in collection order; format leaves
\* the robot model unchanged.
C14_FormatFromModelOnly ==
    (pc = "formatted" /\ last.op = "format") =>
        /\ doc.robot = last.pre.robot
        /\ \A raw \in {<<>>, doc.raw_xml, input \o input} :
             format_document([last.pre EXCEPT !.raw_xml = raw]).raw_xml = doc.raw_xml
        /\ RootChildren(doc.raw_xml) = SerializationOrder(last.pre.robot)

\* a document holding an entry of every kind, parsed from a text in another
\* order, was formatted
C14_Witness ==
    /\ pc = "formatted" /\ last.op = "format"
    /\ last.pre.raw_xml # doc.raw_xml
    /\ doc.robot.materials # <<>> /\ Len(doc.robot.links) > 1 /\ doc.robot.joints # <<>>
    /\ Len(doc.robot.gazebo_elements) > 1 /\ doc.robot.transmission_elements # <<>>

\* positions of the elements written directly inside the root element
RootIndex(text) ==
    Sorted({i \in DOMAIN text : Depth(text, i) = 1 /\ text[i].type \in {"Start", "Empty"}})

\* positions of the elements written directly inside the element at i
NestedAt(text, i) ==
    IF text[i].type = "Empty" THEN {}
    ELSE {k \in (i + 1)..(Match(text, i) - 1) :
            text[k].type \in {"Start", "Empty"} /\ Depth(text, k) = Depth(text, i) + 1}

NestedCount(text, i, tag) == Cardinality({k \in NestedAt(text, i) : text[k].name = tag})

\* the link's element: self-closing when the link holds nothing, else an
\* open/close pair holding an element per inertial, visual and collision
LinkWritten(text, i, link) ==
    IF is_none(link.inertial) /\ link.visual = <<>> /\ link.collision = <<>>
    THEN text[i].type = "Empty"
    ELSE /\ text[i].type = "Start"
         /\ NestedCount(text, i, "inertial") = Len(link.inertial)
         /\ NestedCount(text, i, "visual") = Len(link.visual)
         /\ NestedCount(text, i, "collision") = Len(link.collision)

\* the joint's element: an open/close pair holding parent, child and an
\* element per optional field that is set
JointWritten(text, i, joint) ==
    /\ text[i].type = "Start"
    /\ NestedCount(text, i, "parent") = 1 /\ NestedCount(text, i, "child") = 1
    /\ NestedCount(text, i, "origin") = Len(joint.origin)
    /\ NestedCount(text, i, "axis") = Len(joint.axis)
    /\ NestedCount(text, i, "limit") = Len(joint.limit)
    /\ NestedCount(text, i, "dynamics") = Len(joint.dynamics)
    /\ NestedCount(text, i, "mimic") = Len(joint.mimic)

\* C15: in regenerated text a link or joint with nested content is an
\* open/close pair that contains an element for every inertial, visual and
\* collision entry of the link and for parent, child and every set origin,
\* axis, limit, dynamics and mimic of the joint; a link without content is
\* self-closing.
C15_NestedContentEmitted ==
    (pc = "formatted" /\ last.op = "format") =>
        LET text == doc.raw_xml
            robot == doc.robot
            idx == RootIndex(text)
            nm == Len(robot.materials)
            nl == Len(robot.links)
        IN  /\ Len(idx) >= nm + nl + Len(robot.joints)
            /\ \A k \in DOMAIN robot.links :
                 LinkWritten(text, idx[nm + k], robot.links[k].value)
            /\ \A k \in DOMAIN robot.joints :
                 JointWritten(text, idx[nm + nl + k], robot.joints[k].value)

\* the keys of `after' are keys of `before' and stand in the order they had
OrderKept(before, after) ==
    /\ \A i \in DOMAIN after : \E b \in DOMAIN before : before[b] = after[i]
    /\ \A i, j \in DOMAIN after :
         i < j => \E a, b \in DOMAIN before : a < b /\ before[a] = after[i] /\ before[b] = after[j]

\* the names of the root's elements of one kind, in text order
WrittenNames(text, tag) ==
    LET cs == SelectSeq(RootChildren(text), LAMBDA c : c[1] = tag)
    IN  [i \in DOMAIN cs |-> cs[i][2][1]]

\* C16: after remove(doc, kind, name) returned true, and after fix removed
\* unused materials, the entries left in each collection stand in the
\* relative order they had before, in the model and in the regenerated text.
C16_RemovalKeepsOrder ==
    /\ (last.op = "remove" /\ last.ret) =>
           /\ OrderKept(IMKeys(last.pre.robot.links), IMKeys(doc.robot.links))
           /\ OrderKept(IMKeys(last.pre.robot.joints), IMKeys(doc.robot.joints))
           /\ OrderKept(IMKeys(last.pre.robot.materials), IMKeys(doc.robot.materials))
           /\ OrderKept(IMKeys(last.pre.robot.links), WrittenNames(doc.raw_xml, "link"))
           /\ OrderKept(IMKeys(last.pre.robot.joints), WrittenNames(doc.raw_xml, "joint"))
           /\ OrderKept(IMKeys(last.pre.robot.materials), WrittenNames(doc.raw_xml, "material"))
    /\ (last.op = "fix" /\ last.args.remove_unused_materials) =>
           OrderKept(IMKeys(last.aux.stages[2].materials), IMKeys(last.aux.stages[3].materials))

\* an unrecognized element opened directly inside robot or inside a link
UnknownAt(text, j) ==
    /\ text[j].type = "Start" /\ Encl(text, j) # 0
    /\ \/ /\ RobotAt(text, Encl(text, j))
          /\ text[j].name \notin {"link", "joint", "material", "gazebo", "transmission"}
       \/ /\ RobotChildAt(text, Encl(text, j), "link")
          /\ text[j].name \notin {"inertial", "visual", "collision"}

\* the events from an unknown element's open tag to its close tag
InsideUnknown(text) ==
    {i \in DOMAIN text : \E j \in 1..i : UnknownAt(text, j) /\ i <= Match(text, j)}

Keep(text, S) == [k \in 1..Cardinality(S) |-> text[Sorted(S)[k]]]

\* the text without its unknown elements
StripUnknown(text) == Keep(text, DOMAIN text \ InsideUnknown(text))

\* what parse returns for a text: the error, or the robot model
ParseOutcome(text) ==
    LET r == parse_string(text)
    IN  IF is_some(r.err) THEN [ok |-> FALSE, out |-> r.err[1]]
        ELSE [ok |-> TRUE, out |-> r.value.robot]

Parsed == [ok |-> pc = "parsed", out |-> IF pc = "parsed" THEN doc.robot ELSE last.out]

\* names of links, joints and materials written only inside unknown elements
OnlyInsideUnknown(text, tag) ==
    {AttrOf(text[i], "name") : i \in {k \in InsideUnknown(text) :
                                         text[k].name = tag /\ HasAttr(text[k], "name")}}
    \ {AttrOf(text[i], "name") : i \in {k \in DOMAIN text \ InsideUnknown(text) :
                                           text[k].name = tag /\ HasAttr(text[k], "name")}}

JointUnknownAt(text, j) ==
    /\ text[j].type \in {"Start", "Empty"} /\ Encl(text, j) # 0
    /\ RobotChildAt(text, Encl(text, j), "joint")
    /\ text[j].name \notin {"parent", "child", "origin", "axis", "limit", "dynamics", "mimic"}

InsideJointUnknown(text) ==
    {i \in DOMAIN text :
        \E j \in 1..i : /\ JointUnknownAt(text, j)
                        /\ i <= (IF text[j].type = "Empty" THEN j ELSE Match(text, j))}

\* the text without the unknown children of its joints
StripJointUnknown(text) == Keep(text, DOMAIN text \ InsideJointUnknown(text))

\* C18: an unrecognized child element of a joint, self-closing or an
\* open/close pair with nested content, leaves the scan in step: the parse
\* returns what it returns for the text with the unknown children removed
\* (same joint fields, same elements after the joint, same error).
C18_JointUnknownChildInStep ==
    pc \in {"parsed", "failed"} => Parsed = ParseOutcome(StripJointUnknown(input))

CycleReported(errors) == \E i \in DOMAIN errors : errors[i] = <<"Kinematic tree contains cycles">>

\* C19: validate_kinematic_tree reports a cycle exactly when the graph with
\* one edge parent -> child per joint has a directed cycle, a self-loop
\* included, whether or not the names on the cycle are links.
C19_CycleReportedIff ==
    last.op = "validate" => (CycleReported(last.out) <=> HasDirectedCycle(doc.robot))

RECURSIVE LongestSimplePath(_, _, _)
\* the number of names on the longest path from node that repeats no name
\* and avoids the names in `seen'
LongestSimplePath(E, node, seen) ==
    LET next == {e[2] : e \in {f \in E : f[1] = node}} \ (seen \cup {node})
        below == {LongestSimplePath(E, n, seen \cup {node}) : n \in next}
    IN  1 + Max(below \cup {0})

Roots(robot) == {k \in LinkKeys(robot) : \A e \in Edges(robot) : e[2] # k}

ReferenceDepth(robot) ==
    Max({0} \cup {LongestSimplePath(Edges(robot), r, {}) : r \in Roots(robot)})

\* C20: the tree depth of the statistics is the maximum, over the root
\* links, of the number of links on the longest simple downward path from
\* the root: 0 without a root, 1 for an isolated root, also when two paths of
\* different length lead to one link.
C20_TreeDepthIsLongestPath ==
    (last.op = "analyze" /\ ReferentialIntegrity(doc.robot)) =>
        last.out.tree_depth = ReferenceDepth(doc.robot)

\* every name that is a link or an end of a joint
GraphNodes(robot) == LinkKeys(robot) \cup {e[1] : e \in Edges(robot)} \cup {e[2] : e \in Edges(robot)}

Leaves(robot) == {k \in LinkKeys(robot) : \A e \in Edges(robot) : e[1] # k}

\* the sequences of names that repeat no name, follow one joint per step,
\* start at a root link and end at a leaf link
SimplePaths(robot) ==
    {p \in UNION {[1..n -> GraphNodes(robot)] : n \in 1..Cardinality(GraphNodes(robot))} :
        /\ \A i, j \in DOMAIN p : i # j => p[i] # p[j]
        /\ p[1] \in Roots(robot)
        /\ p[Len(p)] \in Leaves(robot)
        /\ \A i \in 1..(Len(p) - 1) : <<p[i], p[i + 1]>> \in Edges(robot)}

\* the joint list of a chain names one joint per consecutive pair of its links
OneJointPerStep(robot, chain) ==
    /\ Len(chain.joints) = Len(chain.links) - 1
    /\ \A s \in DOMAIN chain.joints :
          \E j \in DOMAIN robot.joints :
              /\ robot.joints[j].key = chain.joints[s]
              /\ robot.joints[j].value.parent = chain.links[s]
              /\ robot.joints[j].value.child = chain.links[s + 1]

\* C21: the kinematic chains of the statistics are exactly the simple paths
\* from a root link to a leaf link, one chain per path (k chains for a pair
\* joined by k simple paths), and each chain lists one joint per consecutive
\* pair of its links.
C21_ChainsAreAllSimplePaths ==
    last.op = "analyze" =>
        LET chains == last.out.kinematic_chains
        IN  /\ {chains[i].links : i \in DOMAIN chains} = SimplePaths(doc.robot)
            /\ Len(chains) = Cardinality(SimplePaths(doc.robot))
            /\ \A i \in DOMAIN chains : OneJointPerStep(doc.robot, chains[i])

\* the element opened at j is not closed before the text ends
OpenAtEnd(text, j) ==
    /\ text[j].type = "Start"
    /\ ~ \E k \in (j + 1)..Len(text) : text[k].type = "End" /\ Depth(text, k) = Depth(text, j) + 1

\* the text ends inside a robot element, a link or joint of a robot, or an
\* unknown element of a robot or of a link
EndsInsideElement(text) ==
    \E j \in DOMAIN text :
        /\ OpenAtEnd(text, j)
        /\ \/ RobotAt(text, j)
           \/ \E tag \in {"link", "joint"} : RobotChildAt(text, j, tag)
           \/ /\ Encl(text, j) # 0
              /\ \/ RobotAt(text, Encl(text, j))
                 \/ RobotChildAt(text, Encl(text, j), "link")

\* C22: the parse of a finite text ends, with a document or with an error;
\* when the text ends while a robot, link or joint element is still open, or
\* inside an unknown element that is being skipped, it ends with an error.
C22_TruncatedInputFails ==
    /\ pc \in {"input", "parsed", "failed", "formatted", "reparsed"}
    /\ (pc \in {"parsed", "failed"} /\ EndsInsideElement(input)) => pc = "failed"

\* the last operation was a mutator that succeeded
MutatorSucceeded ==
    \/ last.op \in {"remove", "rename"} /\ last.ret
    \/ last.op \in {"fix", "format"}

\* C23: after a successful mutator operation (remove or rename returning
\* true, fix with any combination of options, format) the stored text of the
\* document is the serialization of the model it holds.
C23_TextFollowsModel ==
    MutatorSucceeded => doc.raw_xml = regenerate_xml_with_formatting(doc.robot)

\* every entry of the collection is stored under its own name
KeyedByName(m) == \A i \in DOMAIN m : m[i].key = m[i].value.name

\* C24: in every document reached by parse followed by remove, rename and
\* fix operations, each entry of links, joints and materials is stored under
\* a key equal to its own name.
C24_KeyIsName ==
    /\ KeyedByName(doc.robot.links)
    /\ KeyedByName(doc.robot.joints)
    /\ KeyedByName(doc.robot.materials)

\* a rename onto the name of another entry, after an earlier edit
C24_Witness ==
    /\ ops = 2
    /\ last.op = "rename" /\ last.ret
    /\ last.args.old_name # last.args.new_name
    /\ \/ last.args.element_type = "link" /\ IMContains(last.pre.robot.links, last.args.new_name)
       \/ last.args.element_type = "joint" /\ IMContains(last.pre.robot.joints, last.args.new_name)

\* the elements named tag written directly in the robot element opened at r,
\* as an open/close pair or as a self-closing tag
WrittenIn(text, r, tag) ==
    {i \in DOMAIN text : /\ text[i].type \in {"Start", "Empty"}
                         /\ text[i].name = tag
                         /\ Encl(text, i) = r}

\* a self-closing child of a link of the robot element opened at r
SelfClosingInLink(text, r, link, tag) ==
    /\ text[link].type = "Start" /\ link \in WrittenIn(text, r, "link")
    /\ \E i \in DOMAIN text : text[i].type = "Empty" /\ text[i].name = tag /\ Encl(text, i) = link

\* C25: every link, material, gazebo or transmission element written directly
\* in robot yields an entry of the parsed model, written as an open/close
\* pair or as a self-closing tag; a self-closing robot, visual, collision or
\* inertial element is recognized; a self-closing link or material without a
\* name attribute fails the parse.
C25_SelfClosingRecognized ==
    pc \in {"parsed", "failed"} =>
        LET tops == {i \in DOMAIN input : RobotAt(input, i)}
            named(r, tag) == {i \in WrittenIn(input, r, tag) : HasAttr(input[i], "name")}
        IN  /\ (pc = "parsed" /\ tops # {}) =>
                 /\ \A i \in named(Max(tops), "link") :
                       IMContains(doc.robot.links, AttrOf(input[i], "name"))
                 /\ \A i \in named(Max(tops), "material") :
                       IMContains(doc.robot.materials, AttrOf(input[i], "name"))
                 /\ Len(doc.robot.gazebo_elements) >= Cardinality(WrittenIn(input, Max(tops), "gazebo"))
                 /\ Len(doc.robot.transmission_elements)
                        >= Cardinality(named(Max(tops), "transmission"))
                 /\ \A l \in named(Max(tops), "link") :
                       /\ SelfClosingInLink(input, Max(tops), l, "visual") =>
                              IMGet(doc.robot.links, AttrOf(input[l], "name"))[1].visual # <<>>
                       /\ SelfClosingInLink(input, Max(tops), l, "collision") =>
                              IMGet(doc.robot.links, AttrOf(input[l], "name"))[1].collision # <<>>
                       /\ SelfClosingInLink(input, Max(tops), l, "inertial") =>
                              is_some(IMGet(doc.robot.links, AttrOf(input[l], "name"))[1].inertial)
            /\ (\E i \in DOMAIN input : /\ input[i].type = "Empty" /\ input[i].name = "robot"
                                        /\ Depth(input, i) = 0 /\ HasAttr(input[i], "name"))
                   => ~ NoRobotFound
            /\ (\E r \in tops : \E tag \in {"link", "material"} :
                   \E i \in WrittenIn(input, r, tag) :
                       input[i].type = "Empty" /\ ~ HasAttr(input[i], "name"))
                   => pc = "failed"

\* the links of the model with a visual that carries a material reference
VisualsWithMaterial(robot) ==
    {i \in DOMAIN robot.links :
        \E v \in DOMAIN robot.links[i].value.visual :
            is_some(robot.links[i].value.visual[v].material)}

\* the materials a visual of the text refers to
ReferencedInText(text) ==
    {AttrOf(text[i], "name") : i \in {k \in DOMAIN text :
        /\ text[k].name = "material" /\ HasAttr(text[k], "name")
        /\ Encl(text, k) # 0 /\ text[Encl(text, k)].name = "visual"}}

\* C26: no visual of a parsed document carries a material reference; lint
\* on a freshly parsed document reports an Info/Style issue for every
\* material, and fix with remove-unused-materials enabled leaves no
\* material, also when the visuals of the text refer to those materials.
C26_ParsedVisualsCarryNoMaterial ==
    /\ ops = 0 => VisualsWithMaterial(doc.robot) = {}
    /\ (last.op = "lint" /\ ops = 0) =>
          \A m \in MaterialKeys(doc.robot) :
              \E i \in DOMAIN last.out : /\ last.out[i].severity = "Info"
                                         /\ last.out[i].category = "Style"
                                         /\ last.out[i].element_name = Some(m)
    /\ (last.op = "fix" /\ ops = 1 /\ last.args.remove_unused_materials) =>
          doc.robot.materials = <<>>

\* the default fix on a parsed document whose text refers to one of its
\* materials in a visual
C26_Witness ==
    /\ last.op = "fix" /\ ops = 1 /\ last.args = FixOptionsDefault
    /\ ReferencedInText(input) \cap MaterialKeys(last.pre.robot) # {}
    /\ doc.robot.materials = <<>>

\* the collection of the robot that holds the entries of a kind
CollectionOf(robot, element_type) ==
    CASE element_type = "link" -> robot.links
      [] element_type = "joint" -> robot.joints
      [] element_type = "material" -> robot.materials
      [] OTHER -> <<>>

\* every entry of `before' but the one named old is an entry of `after',
\* with the same value
OthersKept(before, after, old) ==
    \A i \in DOMAIN before :
        before[i].key # old => IMGet(after, before[i].key) = Some(before[i].value)

\* C27: a rename that returns true leaves the number of entries of the kind
\* unchanged and changes no other entry of the kind, whatever the new name,
\* the name of another entry of the kind included.
C27_RenameKeepsOthers ==
    (last.op = "rename" /\ last.ret) =>
        LET before == CollectionOf(last.pre.robot, last.args.element_type)
            after == CollectionOf(doc.robot, last.args.element_type)
        IN  /\ Len(after) = Len(before)
            /\ OthersKept(before, after, last.args.old_name)

\* the change entries of a fix that report a rewritten name of the kind
FixedNames(changes, what) == SelectSeq(changes, LAMBDA c : c[1] = what)

\* the names of the collection that fix-naming rewrites
NamesToRewrite(m) ==
    {i \in DOMAIN m : ~ modifier_is_valid_name(m[i].key) /\ fix_name(m[i].key) # m[i].key}

\* C28: a fix with fix-naming enabled keeps the number of links and the
\* number of joints and reports one change per rewritten name, also when a
\* fixed name is the name of another entry.
C28_FixNamingKeepsCounts ==
    (last.op = "fix" /\ last.args.fix_naming) =>
        /\ Len(doc.robot.links) = Len(last.pre.robot.links)
        /\ Len(doc.robot.joints) = Len(last.pre.robot.joints)
        /\ Len(FixedNames(last.out, "Fixed link name"))
               = Cardinality(NamesToRewrite(last.pre.robot.links))
        /\ Len(FixedNames(last.out, "Fixed joint name"))
               = Cardinality(NamesToRewrite(last.pre.robot.joints))

\* C29: after a fix with fix-naming enabled every link name and every joint
\* name of the model passes the naming-convention test, and a lint that
\* follows reports no Warning/Naming issue.
C29_FixedNamesAreValid ==
    /\ (last.op = "fix" /\ last.args.fix_naming) =>
          /\ \A i \in DOMAIN doc.robot.links : modifier_is_valid_name(doc.robot.links[i].key)
          /\ \A i \in DOMAIN doc.robot.joints : modifier_is_valid_name(doc.robot.joints[i].key)
    /\ (last.op = "lint" /\ ops >= 1) => IssuesOf(last.out, "Warning", "Naming") = <<>>

Entries(m) == {m[i] : i \in DOMAIN m}

KnownKinds == {"link", "joint", "material"}

\* the operation found nothing to act on: the kind is not link, joint or
\* material, or the document holds no entry of the kind under the name
NothingNamed(robot, element_type, name) ==
    element_type \notin KnownKinds \/ ~ IMContains(CollectionOf(robot, element_type), name)

\* the entry stored under name, as it is after a rename to new_name
Rekeyed(m, name, new_name) ==
    [key |-> new_name, value |-> [IMGet(m, name)[1] EXCEPT !.name = new_name]]

\* C30: remove and rename return false exactly when the kind is not link,
\* joint or material or no entry of the kind has the name, and then the
\* document, model and text, is unchanged; when they return true exactly the
\* named entry is removed, respectively stored under the new name.
C30_FalseLeavesDocument ==
    /\ last.op = "remove" =>
          LET before == CollectionOf(last.pre.robot, last.args.element_type)
              after == CollectionOf(doc.robot, last.args.element_type)
          IN  /\ ~ last.ret <=> NothingNamed(last.pre.robot, last.args.element_type, last.args.name)
              /\ ~ last.ret => doc = last.pre
              /\ last.ret => Entries(after) = {e \in Entries(before) : e.key # last.args.name}
    /\ last.op = "rename" =>
          LET before == CollectionOf(last.pre.robot, last.args.element_type)
              after == CollectionOf(doc.robot, last.args.element_type)
          IN  /\ ~ last.ret <=> NothingNamed(last.pre.robot, last.args.element_type, last.args.old_name)
              /\ ~ last.ret => doc = last.pre
              /\ last.ret => Entries(after) =
                                 {e \in Entries(before) : e.key # last.args.old_name}
                                 \cup {Rekeyed(before, last.args.old_name, last.args.new_name)}

====
